---- MODULE Spec2Model ----
(***************************************************************************)
(* Distribution workflow of the content-operations dashboard:              *)
(*   - the document store (videos, projects) and services/videoService.ts  *)
(*   - the detail editor      (components/VideoDetailModal.tsx)            *)
(*   - the distribution queue (components/DistributionView.tsx,            *)
(*                             components/DistributionModal.tsx)           *)
(*   - the calendar           (components/CalendarView.tsx)                *)
(*                                                                         *)
(* Specifications:                                                         *)
(*   Spec       one operator calling the status services, each call run    *)
(*              to completion                                              *)
(*   SpecStats  recalculateProjectStats' counting loop on a list of        *)
(*              statuses                                                   *)
(*   SpecEditor one operator working on one video in the detail editor     *)
(*   SpecDist   one approved video between the distribution queue, the     *)
(*              calendar and the other sessions of the dashboard           *)
(*   SpecMedia  the operator choosing platforms, accounts and post types   *)
(*              while the editor reads the video file                      *)
(*   SpecEligibility  the Instagram checks and the YouTube rule on every   *)
(*              sample file                                                *)
(*   SpecFaults the status services while the store may fail the calls of  *)
(*              recalculateProjectStats                                    *)
(*   SpecRace   two sessions calling status services for two videos of    *)
(*              one project, their store calls interleaved                 *)
(*   SpecPeers  two sessions with the detail editor open on one video      *)
(*   SpecApproved  one operator opening the detail editor on a video that  *)
(*              is already approved                                        *)
(***************************************************************************)
EXTENDS Integers, Sequences, FiniteSets, TLC

\* ------------------------------------------------------------------ bounds
MaxVideos == 2
MaxStatuses == 4
\* the operator's actions in one run of the detail editor's scenario
MaxSteps == 7
\* the upload calls made to the platform in one run of the scenario
\* the operator's actions on a video whose file is read by the editor
MaxMediaSteps == 6
\* the service calls made while the store may fail
MaxCalls == 3
MaxUploads == 3
\* the service calls one session makes while another session makes its own
MaxSessionCalls == 2

\* ------------------------------------------------------------- vocabulary
VideoIds == 1..MaxVideos
ProjectIds == {"p1", "p2"}

NoDoc == [exists |-> FALSE]
NoProject == "no-project"
Undefined == [defined |-> FALSE]
NoStatus == "no-status"
NoDate == "no-date"
NoId == "no-external-id"
NoStats == [computed |-> FALSE]
NowDate == "now"
ScheduleTimes == {"t1"}

VideoStatus ==
    {"pending", "ready", "approved", "processing", "published",
     "dismissed", "uploading", "error", "scheduled"}

UploadStatus == "pending"
UploadFormat == "vertical"

Platforms == {"youtube", "instagram", "tiktok"}

VARIABLES
    videos,      \* the videos collection: id -> document, or NoDoc
    projects,    \* the projects collection: id -> [videoCount, stats]
    statsIn,     \* SpecStats: the statuses of the scanned videos
    statsOut,    \* SpecStats: the stats the counting loop produced
    inFlight,    \* session -> the status service it has called and how
                 \* far the call has got
    peer,        \* the detail editor of a second operator session on
                 \* the edited video
    \* VideoDetailModal (the detail editor) and the list entry it edits
    edOpen,               \* VideosView.selectedVideo is set: the editor is open
    localVideo,           \* the video prop / localVideo; it is the entry of
                          \* VideosView.videos that onUpdate keeps current
    selectedPlatforms,
    distributionConfigs,  \* the in-memory config list
    ytData, igData, ttData,
    platformSettings,     \* platform -> shared post type
    showApproveModal,
    lastToggle,           \* history: the run of toggleAccountSelection calls
                          \* on one (platform, account) that just ended
    steps,                \* the operator's actions so far
    videoDimensions,      \* what onLoadedMetadata read, or Undefined (null)
    videoDuration,
    media,                \* the file the <video> element loads
    lastApprove,          \* history: the confirmApprove of the step just
                          \* taken and the store call that failed in it
    \* DistributionView and its DistributionModal
    dvVideo,          \* the entry of DistributionView.videos, or NoDoc
    processingIds,    \* the video is in processingIds
    selectedVideo,    \* the snapshot the modal works on
    selAliased,       \* selectedVideo is the very object listed in videos
    isModalOpen,
    sending,          \* handleConfirm: where its loop stands
    uploads,          \* upload calls made so far
    remote,           \* the ids of the videos that exist on the platform
    \* CalendarView
    cvVideo,          \* the entry of CalendarView.videos, or NoDoc
    previewVideo,     \* the snapshot the preview shows
    showCancelModal,
    deleting,         \* onConfirmCancel: the remote delete it waits for
    lastOp            \* history: the service call of the step just taken

storeVars == <<videos, projects>>
statsVars == <<statsIn, statsOut>>
sessionVars == <<inFlight, peer>>
\* What no handler of the operator's own views touches.
backVars == <<statsVars, sessionVars>>
editorVars ==
    <<edOpen, localVideo, selectedPlatforms, distributionConfigs,
      ytData, igData, ttData, platformSettings, showApproveModal, lastToggle>>
queueVars ==
    <<dvVideo, processingIds, selectedVideo, selAliased, isModalOpen,
      sending, uploads, remote>>
calendarVars == <<cvVideo, previewVideo, showCancelModal, deleting>>
distVars == <<queueVars, calendarVars, lastOp>>
mediaVars == <<videoDimensions, videoDuration, media>>
uiVars == <<editorVars, mediaVars, lastApprove, steps, distVars>>
vars == <<storeVars, backVars, uiVars>>

\* ----------------------------------------------- recalculateProjectStats
ZeroStats ==
    [total |-> 0, pendingReview |-> 0, approved |-> 0,
     scheduledOrPublished |-> 0, discarded |-> 0]

\* One turn of the forEach: the if / else-if chain on v.status.
CountStatus_ScheduledAsPending(stats, status) ==
    IF status = "dismissed"
    THEN [stats EXCEPT !.discarded = @ + 1]
    ELSE IF status = "published"
    THEN [stats EXCEPT !.scheduledOrPublished = @ + 1]
    ELSE IF status = "approved"
    THEN [stats EXCEPT !.approved = @ + 1]
    ELSE [stats EXCEPT !.pendingReview = @ + 1]

CountStatus(stats, status) ==
    IF status = "dismissed"
    THEN [stats EXCEPT !.discarded = @ + 1]
    ELSE IF status = "published" \/ status = "scheduled"
    THEN [stats EXCEPT !.scheduledOrPublished = @ + 1]
    ELSE IF status = "approved"
    THEN [stats EXCEPT !.approved = @ + 1]
    ELSE [stats EXCEPT !.pendingReview = @ + 1]

RECURSIVE CountFrom(_, _, _)
CountFrom(stats, statuses, i) ==
    IF i > Len(statuses)
    THEN stats
    ELSE CountFrom(CountStatus(stats, statuses[i]), statuses, i + 1)

\* The stats object built from the statuses of the scanned videos.
ProjectStatsOf(statuses) ==
    CountFrom([ZeroStats EXCEPT !.total = Len(statuses)], statuses, 1)

\* The statuses of the documents the query where(projectId == pid) returns.
RECURSIVE StatusesFrom(_, _, _)
StatusesFrom(vs, pid, i) ==
    IF i > MaxVideos
    THEN <<>>
    ELSE IF vs[i] # NoDoc /\ vs[i].projectId = pid
         THEN <<vs[i].status>> \o StatusesFrom(vs, pid, i + 1)
         ELSE StatusesFrom(vs, pid, i + 1)

recalculateProjectStats(ps, vs, pid) ==
    LET stats == ProjectStatsOf(StatusesFrom(vs, pid, 1))
    IN  [ps EXCEPT ![pid] = [videoCount |-> stats.total, stats |-> stats]]

\* ------------------------------------------------------ distribution config
YtEntry(acc, ext) ==
    [platform |-> "youtube", accountId |-> acc, postType |-> "video",
     externalId |-> ext, metadata |-> [title |-> "T", caption |-> "D"]]

\* Config lists the service-level specification submits.
SampleConfigs == { <<YtEntry("y1", "x1")>> }

\* const { externalId, ...rest } = c
StripExternalId(c) == [c EXCEPT !.externalId = NoId]

MapPlatforms(configs) == [i \in 1..Len(configs) |-> configs[i].platform]

\* ------------------------------------------------------------ the services
\* A document as addDoc stores it on upload. The arrays platforms and
\* distributionConfig are absent then; every reader takes an absent array
\* for the empty one (video.platforms || [], distributionConfig || []), so
\* both are kept as the empty sequence.
NewVideoDoc(pid, status, format) ==
    [projectId |-> pid, status |-> status, format |-> format,
     scheduledDate |-> NoDate,
     platforms |-> <<>>, distributionConfig |-> <<>>,
     youtubeMetadata |-> Undefined, instagramMetadata |-> Undefined,
     tiktokMetadata |-> Undefined]

\* A service takes the store st = [videos, projects] and returns the store
\* its writes leave behind.
Store == [videos |-> videos, projects |-> projects]

\* if (snap.exists() && snap.data().projectId) recalculateProjectStats(...)
RecalcForVideo(st, doc) ==
    IF doc # NoDoc /\ doc.projectId # NoProject
    THEN [st EXCEPT !.projects =
             recalculateProjectStats(st.projects, st.videos, doc.projectId)]
    ELSE st

saveVideoMetadata(st, id, doc) ==
    RecalcForVideo([st EXCEPT !.videos[id] = doc], doc)

updateVideoPlatforms(st, videoId, platforms) ==
    [st EXCEPT !.videos[videoId].platforms = platforms]

updateVideoDistributionConfig_Merges(st, videoId, config) ==
    LET Absent(c) ==
            \A i \in 1..Len(config) :
                ~(config[i].platform = c.platform
                     /\ config[i].accountId = c.accountId)
    IN  [st EXCEPT !.videos[videoId].distributionConfig =
            SelectSeq(@, Absent) \o config]

updateVideoDistributionConfig(st, videoId, config) ==
    [st EXCEPT !.videos[videoId].distributionConfig = config]

approveVideo_NoRecalc(st, videoId) ==
    [st EXCEPT !.videos[videoId].status = "approved"]

approveVideo(st, videoId) ==
    LET written == [st EXCEPT !.videos[videoId].status = "approved"]
    IN  RecalcForVideo(written, written.videos[videoId])

dismissVideo(st, videoId) ==
    LET written == [st EXCEPT !.videos[videoId].status = "dismissed"]
    IN  RecalcForVideo(written, written.videos[videoId])

unapproveVideo(st, videoId) ==
    LET written == [st EXCEPT !.videos[videoId].status = "pending"]
    IN  RecalcForVideo(written, written.videos[videoId])

markVideoAsProcessing_KeepsConfig(st, videoId, configs, scheduledDate) ==
    LET newStatus == IF scheduledDate # NoDate THEN "scheduled"
                     ELSE "published"
        written == [st EXCEPT !.videos[videoId] =
            [@ EXCEPT !.status = newStatus,
                      !.scheduledDate = IF scheduledDate # NoDate
                                        THEN scheduledDate ELSE NowDate]]
    IN  RecalcForVideo(written, written.videos[videoId])

markVideoAsProcessing(st, videoId, configs, scheduledDate) ==
    LET newStatus == IF scheduledDate # NoDate THEN "scheduled"
                     ELSE "published"
        written == [st EXCEPT !.videos[videoId] =
            [@ EXCEPT !.status = newStatus,
                      !.platforms = MapPlatforms(configs),
                      !.distributionConfig = configs,
                      !.scheduledDate = IF scheduledDate # NoDate
                                        THEN scheduledDate ELSE NowDate]]
    IN  RecalcForVideo(written, written.videos[videoId])

cancelVideoScheduling_KeepsDate(st, videoId) ==
    LET snap == st.videos[videoId]
        stored == snap.distributionConfig
        cleaned == [i \in 1..Len(stored) |-> StripExternalId(stored[i])]
        written == [st EXCEPT !.videos[videoId] =
            [@ EXCEPT !.status = "approved",
                      !.distributionConfig = cleaned]]
    IN  RecalcForVideo(written, snap)

cancelVideoScheduling(st, videoId) ==
    LET snap == st.videos[videoId]
        stored == snap.distributionConfig
        cleaned == [i \in 1..Len(stored) |-> StripExternalId(stored[i])]
        written == [st EXCEPT !.videos[videoId] =
            [@ EXCEPT !.status = "approved",
                      !.scheduledDate = NoDate,
                      !.distributionConfig = cleaned]]
    IN  RecalcForVideo(written, snap)

deleteVideo(st, videoId) ==
    LET videoSnap == st.videos[videoId]
    IN  RecalcForVideo([st EXCEPT !.videos[videoId] = NoDoc], videoSnap)

\* The store a call leaves behind.
Commit(st) ==
    /\ videos' = st.videos
    /\ projects' = st.projects

\* ------------------------------------------------------- the detail editor
\* The connected accounts getIntegrations returns.
Integrations ==
    { [id |-> "y1", platform |-> "youtube", hasToken |-> TRUE],
      [id |-> "y2", platform |-> "youtube", hasToken |-> TRUE],
      [id |-> "i1", platform |-> "instagram", hasToken |-> TRUE] }

AccountsOf(platform) ==
    { i.id : i \in { j \in Integrations : j.platform = platform } }

\* What the operator can type in the fields of the editor.
Titles == {"", " ", "T"}
Descriptions == {"", "D"}
Captions == {"", "C"}

NullValue == "null"
\* an absent playlistId
NoPlaylist == "undefined"

\* String.prototype.trim on the texts above.
Trim(text) == IF text = " " THEN "" ELSE text

\* tags.join(', ')
RECURSIVE Join(_)
Join(tags) ==
    IF Len(tags) = 0 THEN ""
    ELSE IF Len(tags) = 1 THEN tags[1]
    ELSE tags[1] \o ", " \o Join(Tail(tags))

defaultYt ==
    [title |-> "", description |-> "", tags |-> <<>>, categoryId |-> "22",
     playlistId |-> NoPlaylist, privacyStatus |-> "public"]

defaultSocial == [caption |-> ""]

\* useState's initial platformSettings
InitialSettings(video) ==
    [p \in Platforms |->
        IF p = "youtube"
        THEN (IF video.format = "vertical" THEN "shorts" ELSE "video")
        ELSE "reel"]

PostTypesOf(platform) ==
    IF platform = "youtube" THEN {"shorts", "video"}
    ELSE IF platform = "instagram" THEN {"reel", "story", "feed"}
    ELSE {}

Includes(seq, x) == \E i \in 1..Len(seq) : seq[i] = x

\* { ...a, ...b }
Merge(a, b) ==
    [f \in DOMAIN a \cup DOMAIN b |-> IF f \in DOMAIN b THEN b[f] ELSE a[f]]

\* x || null
OrNull(x) == IF x = NoPlaylist \/ x = "" THEN NullValue ELSE x

getPlatformConfigs(platform) ==
    LET OfPlatform(c) == c.platform = platform
    IN  SelectSeq(distributionConfigs, OfPlatform)

isAccountSelected(platform, accountId) ==
    \E i \in 1..Len(distributionConfigs) :
        /\ distributionConfigs[i].platform = platform
        /\ distributionConfigs[i].accountId = accountId

\* The shared metadata a config entry of the platform is given.
PlatformMeta(platform) ==
    IF platform = "youtube"
    THEN [title |-> ytData.title,
          caption |-> ytData.description,
          tags |-> Join(ytData.tags),
          playlistId |-> OrNull(ytData.playlistId),
          categoryId |-> ytData.categoryId]
    ELSE [caption |-> IF platform = "instagram" THEN igData.caption
                      ELSE ttData.caption]

\* The effect on [video]: the editor's state is reset from the video prop.
\* The inferred post types: every config entry writes its postType into
\* the settings of its platform, in list order.
RECURSIVE InferPostTypes(_, _)
InferPostTypes(settings, configs) ==
    IF Len(configs) = 0
    THEN settings
    ELSE InferPostTypes(
            [settings EXCEPT ![configs[1].platform] = configs[1].postType],
            Tail(configs))

\* onUpdate(video) followed by the effect it triggers; yt, ig, tt and
\* settings are the values the handler left in ytData, igData, ttData and
\* platformSettings.
SyncFromVideo(video, yt, ig, tt, settings) ==
    /\ localVideo' = video
    /\ selectedPlatforms' = video.platforms
    /\ ytData' = IF video.youtubeMetadata # Undefined
                 THEN video.youtubeMetadata ELSE yt
    /\ igData' = IF video.instagramMetadata # Undefined
                 THEN video.instagramMetadata ELSE ig
    /\ ttData' = IF video.tiktokMetadata # Undefined
                 THEN video.tiktokMetadata ELSE tt
    /\ distributionConfigs' = video.distributionConfig
    /\ platformSettings' = InferPostTypes(settings, video.distributionConfig)

\* Validation for approval
MetaReady(platform) ==
    IF platform = "youtube"
    THEN Trim(ytData.title) # "" /\ Trim(ytData.description) # ""
    ELSE IF platform = "instagram"
    THEN Trim(igData.caption) # ""
    ELSE Trim(ttData.caption) # ""

isYouTubeReady ==
    ~Includes(selectedPlatforms, "youtube") \/ MetaReady("youtube")
isInstagramReady ==
    ~Includes(selectedPlatforms, "instagram") \/ MetaReady("instagram")
isTikTokReady ==
    ~Includes(selectedPlatforms, "tiktok") \/ MetaReady("tiktok")

hasAccountForYoutube ==
    \/ ~Includes(selectedPlatforms, "youtube")
    \/ Len(getPlatformConfigs("youtube")) > 0
hasAccountForInstagram_AnyPlatform ==
    \/ ~Includes(selectedPlatforms, "instagram")
    \/ Len(distributionConfigs) > 0

hasAccountForInstagram ==
    \/ ~Includes(selectedPlatforms, "instagram")
    \/ Len(getPlatformConfigs("instagram")) > 0
hasAccountForTikTok ==
    \/ ~Includes(selectedPlatforms, "tiktok")
    \/ Len(getPlatformConfigs("tiktok")) > 0

isAllReady_NoAccountCheck ==
    /\ Len(selectedPlatforms) > 0
    /\ isYouTubeReady /\ isInstagramReady /\ isTikTokReady

isAllReady ==
    /\ Len(selectedPlatforms) > 0
    /\ isYouTubeReady /\ isInstagramReady /\ isTikTokReady
    /\ hasAccountForYoutube /\ hasAccountForInstagram /\ hasAccountForTikTok

\* The video the editor works on.
\* ------------------------------------------------------ validation logic
\* width / height against a literal given in hundredths.  The quotient is
\* NaN for 0 / 0, and every comparison with NaN is false; it is Infinity
\* for a height of 0 otherwise.
IsNaN(dimensions) == dimensions.width = 0 /\ dimensions.height = 0

RatioGeq(dimensions, hundredths) ==
    ~IsNaN(dimensions) /\ dimensions.width * 100 >= hundredths * dimensions.height

RatioLeq(dimensions, hundredths) ==
    ~IsNaN(dimensions) /\ dimensions.width * 100 <= hundredths * dimensions.height

RatioLt(dimensions, hundredths) ==
    ~IsNaN(dimensions) /\ dimensions.width * 100 < hundredths * dimensions.height

\* !videoDuration: null, or a duration of 0
Falsy(duration) ==
    IF duration = Undefined THEN TRUE ELSE duration.value = 0

isInstagramRatioValid_Exclusive(dimensions) ==
    IF dimensions = Undefined THEN TRUE
    ELSE ~RatioLeq(dimensions, 50) /\ RatioLt(dimensions, 85)

isInstagramRatioValid(dimensions) ==
    IF dimensions = Undefined THEN TRUE
    ELSE RatioGeq(dimensions, 50) /\ RatioLeq(dimensions, 85)

isInstagramDurationValid(duration) ==
    IF Falsy(duration) THEN TRUE
    ELSE duration.value >= 3 /\ duration.value <= 3600

isInstagramValid(dimensions, duration) ==
    isInstagramRatioValid(dimensions) /\ isInstagramDurationValid(duration)

\* The warnings the Instagram tab shows.
InstagramWarnings(dimensions, duration) ==
    (IF isInstagramRatioValid(dimensions) THEN {} ELSE {"ratio"})
    \cup (IF isInstagramDurationValid(duration) THEN {} ELSE {"duration"})

getYouTubeRuleType_SixtyIsShort(dimensions, duration) ==
    IF dimensions = Undefined \/ Falsy(duration)
    THEN NullValue
    ELSE LET isSquare == RatioGeq(dimensions, 90) /\ RatioLeq(dimensions, 110)
             isVertical == RatioLt(dimensions, 90)
             isShortDuration == duration.value <= 60
         IN  IF (isSquare \/ isVertical) /\ isShortDuration
             THEN "shorts" ELSE "video"

getYouTubeRuleType(dimensions, duration) ==
    IF dimensions = Undefined \/ Falsy(duration)
    THEN NullValue
    ELSE LET isSquare == RatioGeq(dimensions, 90) /\ RatioLeq(dimensions, 110)
             isVertical == RatioLt(dimensions, 90)
             isShortDuration == duration.value < 60
         IN  IF (isSquare \/ isVertical) /\ isShortDuration
             THEN "shorts" ELSE "video"

EditedId == 1

\* A file whose metadata the <video> element never delivers.
NoMedia == [loads |-> FALSE]

\* The state of the <video> element's callback is kept by the handler.
KeepMedia == UNCHANGED <<videoDimensions, videoDuration>>

NoToggle == [count |-> 0]

\* The step just taken was not confirmApprove.
NoApprove == [ran |-> FALSE]

\* No store call failed.
NoFailure == "none"

\* The editor is unmounted while no video is selected.
EditorClosed(video) ==
    /\ edOpen' = FALSE
    /\ localVideo' = video
    /\ selectedPlatforms' = <<>>
    /\ distributionConfigs' = <<>>
    /\ ytData' = defaultYt
    /\ igData' = defaultSocial
    /\ ttData' = defaultSocial
    /\ platformSettings' = [p \in Platforms |-> "reel"]
    /\ showApproveModal' = FALSE
    /\ lastToggle' = NoToggle
    /\ videoDimensions' = Undefined
    /\ videoDuration' = Undefined

EditorIdle ==
    /\ edOpen = FALSE
    /\ localVideo = NoDoc
    /\ selectedPlatforms = <<>>
    /\ distributionConfigs = <<>>
    /\ ytData = defaultYt
    /\ igData = defaultSocial
    /\ ttData = defaultSocial
    /\ platformSettings = [p \in Platforms |-> "reel"]
    /\ showApproveModal = FALSE
    /\ lastToggle = NoToggle
    /\ steps = 0
    /\ videoDimensions = Undefined
    /\ videoDuration = Undefined
    /\ media = NoMedia
    /\ lastApprove = NoApprove

\* One more action of the operator, in the editor.
ActWith(approve) ==
    /\ steps < (IF media.loads THEN MaxMediaSteps ELSE MaxSteps)
    /\ steps' = steps + 1
    /\ lastApprove' = approve
    /\ UNCHANGED <<distVars, media>>

Act == ActWith(NoApprove)

\* No service call was made in the step just taken.
NoOp == [op |-> "none"]

SendIdle ==
    [state |-> "idle", active |-> <<>>, pos |-> 0, finalDate |-> NoDate,
     log |-> <<>>]

NotDeleting == [state |-> "idle"]

\* The queue and the calendar before they load anything.
DistIdle ==
    /\ dvVideo = NoDoc
    /\ processingIds = FALSE
    /\ selectedVideo = NoDoc
    /\ selAliased = FALSE
    /\ isModalOpen = FALSE
    /\ sending = SendIdle
    /\ uploads = 0
    /\ remote = {}
    /\ cvVideo = NoDoc
    /\ previewVideo = NoDoc
    /\ showCancelModal = FALSE
    /\ deleting = NotDeleting
    /\ lastOp = NoOp

\* ------------------------------------------------------------------- Spec
\* createProject stores videoCount 0 and all-zero stats.
NewProject == [videoCount |-> 0, stats |-> ZeroStats]

StoreInit ==
    /\ videos = [id \in VideoIds |-> NoDoc]
    /\ projects = [p \in ProjectIds |-> NewProject]

StatsIdle ==
    /\ statsIn = <<>>
    /\ statsOut = NoStats

\* The sessions whose service calls run side by side, and the video each
\* works on.
Sessions == {"a", "b"}

CallIdle == [pc |-> "idle", calls |-> 0]

PeerClosed == [open |-> FALSE]

SessionsIdle ==
    /\ inFlight = [s \in Sessions |-> CallIdle]
    /\ peer = PeerClosed

Init ==
    /\ StoreInit
    /\ StatsIdle /\ SessionsIdle
    /\ EditorIdle
    /\ DistIdle

\* The calls below write a document that exists: updateDoc on a missing
\* document is a store error.
Exists(id) == videos[id] # NoDoc

Upload ==
    \E id \in VideoIds, pid \in ProjectIds \cup {NoProject} :
        /\ ~Exists(id)
        /\ Commit(saveVideoMetadata(Store, id,
                     NewVideoDoc(pid, UploadStatus, UploadFormat)))
        /\ UNCHANGED <<backVars, uiVars>>

Approve ==
    \E id \in VideoIds :
        /\ Exists(id)
        /\ Commit(approveVideo(Store, id))
        /\ UNCHANGED <<backVars, uiVars>>

Dismiss ==
    \E id \in VideoIds :
        /\ Exists(id)
        /\ Commit(dismissVideo(Store, id))
        /\ UNCHANGED <<backVars, uiVars>>

Unapprove ==
    \E id \in VideoIds :
        /\ Exists(id)
        /\ Commit(unapproveVideo(Store, id))
        /\ UNCHANGED <<backVars, uiVars>>

Distribute ==
    \E id \in VideoIds, configs \in SampleConfigs,
       date \in ScheduleTimes \cup {NoDate} :
        /\ Exists(id)
        /\ Commit(markVideoAsProcessing(Store, id, configs, date))
        /\ UNCHANGED <<backVars, uiVars>>

CancelSchedule ==
    \E id \in VideoIds :
        /\ Exists(id)
        /\ Commit(cancelVideoScheduling(Store, id))
        /\ UNCHANGED <<backVars, uiVars>>

Delete ==
    \E id \in VideoIds :
        /\ Exists(id)
        /\ Commit(deleteVideo(Store, id))
        /\ UNCHANGED <<backVars, uiVars>>

Next ==
    \/ Upload
    \/ Approve
    \/ Dismiss
    \/ Unapprove
    \/ Distribute
    \/ CancelSchedule
    \/ Delete

Spec == Init /\ [][Next]_vars

\* The controls of the editor are covered while the confirmation is shown.
Editing == edOpen /\ ~showApproveModal /\ localVideo.status # "dismissed"

\* setSelectedVideo(video): the editor mounts on the list entry.
OpenEditor ==
    /\ ~edOpen
    /\ localVideo # NoDoc
    /\ edOpen' = TRUE
    /\ showApproveModal' = FALSE
    /\ lastToggle' = NoToggle
    /\ SyncFromVideo(localVideo, defaultYt, defaultSocial, defaultSocial,
                     InitialSettings(localVideo))
    /\ Act
    /\ UNCHANGED <<storeVars, backVars>>
    /\ KeepMedia

\* onClose
CloseEditor ==
    /\ edOpen /\ ~showApproveModal
    /\ EditorClosed(localVideo)
    /\ Act
    /\ UNCHANGED <<storeVars, backVars>>

togglePlatformActive(platform, isActive) ==
    LET NotIt(p) == p # platform
        newPlatforms ==
            IF isActive
            THEN (IF Includes(selectedPlatforms, platform)
                  THEN selectedPlatforms
                  ELSE Append(selectedPlatforms, platform))
            ELSE SelectSeq(selectedPlatforms, NotIt)
    IN  /\ Commit(updateVideoPlatforms(Store, EditedId, newPlatforms))
        /\ SyncFromVideo([localVideo EXCEPT !.platforms = newPlatforms],
                         ytData, igData, ttData, platformSettings)
        /\ lastToggle' = NoToggle
        /\ Act
        /\ Act
    /\ UNCHANGED <<edOpen, showApproveModal, backVars>>

TogglePlatform ==
    \E platform \in Platforms :
        /\ Editing
        /\ platform = "instagram"
              => isInstagramValid(videoDimensions, videoDuration)
        /\ togglePlatformActive(platform,
                                ~Includes(selectedPlatforms, platform))
        /\ KeepMedia

\* saveDistributionConfigs, with the settings the caller left
saveDistributionConfigs(configs, settings) ==
    /\ Commit(updateVideoDistributionConfig(Store, EditedId, configs))
    /\ SyncFromVideo([localVideo EXCEPT !.distributionConfig = configs],
                     ytData, igData, ttData, settings)

ToggledConfigs_KeepOnSecond(platform, accountId) ==
    LET newConfig == [platform |-> platform, accountId |-> accountId,
                      postType |-> platformSettings[platform],
                      externalId |-> NoId,
                      metadata |-> PlatformMeta(platform)]
    IN  IF isAccountSelected(platform, accountId)
        THEN distributionConfigs
        ELSE Append(distributionConfigs, newConfig)

\* The list toggleAccountSelection saves.
ToggledConfigs(platform, accountId) ==
    LET Others(c) == ~(c.platform = platform /\ c.accountId = accountId)
        newConfig == [platform |-> platform, accountId |-> accountId,
                      postType |-> platformSettings[platform],
                      externalId |-> NoId,
                      metadata |-> PlatformMeta(platform)]
    IN  IF isAccountSelected(platform, accountId)
        THEN SelectSeq(distributionConfigs, Others)
        ELSE Append(distributionConfigs, newConfig)

toggleAccountSelection(platform, accountId) ==
    /\ saveDistributionConfigs(ToggledConfigs(platform, accountId),
                               platformSettings)
    /\ lastToggle' =
          IF /\ lastToggle.count = 1
             /\ lastToggle.platform = platform
             /\ lastToggle.accountId = accountId
          THEN [lastToggle EXCEPT !.count = 2]
          ELSE [count |-> 1, platform |-> platform, accountId |-> accountId,
                wasSelected |-> isAccountSelected(platform, accountId),
                before |-> distributionConfigs,
                stored |-> videos[EditedId].distributionConfig]
    /\ Act
    /\ UNCHANGED <<edOpen, showApproveModal, backVars>>

ToggleAccount ==
    \E platform \in Platforms :
        \E accountId \in AccountsOf(platform) :
            /\ Editing
            /\ Includes(selectedPlatforms, platform)
            /\ toggleAccountSelection(platform, accountId)
            /\ KeepMedia

updatePostTypeForPlatform_SettingOnly(platform, newType) ==
    /\ saveDistributionConfigs(distributionConfigs,
          [platformSettings EXCEPT ![platform] = newType])
    /\ lastToggle' = NoToggle
    /\ Act
    /\ UNCHANGED <<edOpen, showApproveModal, backVars>>

updatePostTypeForPlatform(platform, newType) ==
    LET IsIt(c) == c.platform = platform
        newConfigs ==
            [i \in 1..Len(distributionConfigs) |->
                IF IsIt(distributionConfigs[i])
                THEN [distributionConfigs[i] EXCEPT !.postType = newType]
                ELSE distributionConfigs[i]]
    IN  /\ saveDistributionConfigs(newConfigs,
              [platformSettings EXCEPT ![platform] = newType])
        /\ lastToggle' = NoToggle
        /\ Act
        /\ Act
    /\ UNCHANGED <<edOpen, showApproveModal, backVars>>

\* The card of the other YouTube type is disabled once the rule has a type.
TypeCardDisabled(platform, type) ==
    /\ platform = "youtube"
    /\ getYouTubeRuleType(videoDimensions, videoDuration)
          \notin {NullValue, type}

SetPostType ==
    \E platform \in Platforms :
        \E newType \in PostTypesOf(platform) :
            /\ Editing
            /\ Includes(selectedPlatforms, platform)
            /\ ~TypeCardDisabled(platform, newType)
            /\ updatePostTypeForPlatform(platform, newType)
            /\ KeepMedia

\* The list syncMetadataToConfigs leaves in memory.
syncMetadataToConfigs(platform, metaUpdates) ==
    [i \in 1..Len(distributionConfigs) |->
        IF distributionConfigs[i].platform = platform
        THEN [distributionConfigs[i] EXCEPT
                 !.metadata = Merge(@, metaUpdates)]
        ELSE distributionConfigs[i]]

\* onChange of the fields: the title, the description, a caption
EditTitle ==
    \E val \in Titles :
        /\ Editing /\ Includes(selectedPlatforms, "youtube")
        /\ ytData' = [ytData EXCEPT !.title = val]
        /\ distributionConfigs' =
              syncMetadataToConfigs("youtube", [title |-> val])
        /\ lastToggle' = NoToggle
        /\ Act
        /\ UNCHANGED <<edOpen, localVideo, selectedPlatforms, igData, ttData,
                       platformSettings, showApproveModal, storeVars,
                       backVars>>
        /\ KeepMedia

EditDescription ==
    \E val \in Descriptions :
        /\ Editing /\ Includes(selectedPlatforms, "youtube")
        /\ ytData' = [ytData EXCEPT !.description = val]
        /\ distributionConfigs' =
              syncMetadataToConfigs("youtube", [caption |-> val])
        /\ lastToggle' = NoToggle
        /\ Act
        /\ UNCHANGED <<edOpen, localVideo, selectedPlatforms, igData, ttData,
                       platformSettings, showApproveModal, storeVars,
                       backVars>>
        /\ KeepMedia

EditCaption ==
    \E subTab \in {"instagram", "tiktok"}, val \in Captions :
        /\ Editing /\ Includes(selectedPlatforms, subTab)
        /\ igData' = IF subTab = "instagram"
                     THEN [igData EXCEPT !.caption = val] ELSE igData
        /\ ttData' = IF subTab = "instagram"
                     THEN ttData ELSE [ttData EXCEPT !.caption = val]
        /\ distributionConfigs' =
              syncMetadataToConfigs(subTab, [caption |-> val])
        /\ lastToggle' = NoToggle
        /\ Act
        /\ UNCHANGED <<edOpen, localVideo, selectedPlatforms, ytData,
                       platformSettings, showApproveModal, storeVars,
                       backVars>>
        /\ KeepMedia

handleSavePlatformData(platform) ==
    LET safeYt == [ytData EXCEPT !.playlistId = OrNull(@)]
        field == IF platform = "youtube" THEN "youtubeMetadata"
                 ELSE IF platform = "instagram" THEN "instagramMetadata"
                 ELSE "tiktokMetadata"
        value == IF platform = "youtube" THEN safeYt
                 ELSE IF platform = "instagram" THEN igData
                 ELSE ttData
        newConfigs == syncMetadataToConfigs(platform, PlatformMeta(platform))
        written == [Store EXCEPT
                       !.videos[EditedId][field] = value,
                       !.videos[EditedId].distributionConfig = newConfigs]
        updatedVideo == [localVideo EXCEPT ![field] = value,
                                           !.distributionConfig = newConfigs]
    IN  /\ Commit(written)
        /\ SyncFromVideo(updatedVideo, ytData, igData, ttData,
                         platformSettings)
        /\ lastToggle' = NoToggle
        /\ Act
        /\ Act
    /\ UNCHANGED <<edOpen, showApproveModal, backVars>>

SavePlatformData ==
    \E platform \in Platforms :
        /\ Editing /\ Includes(selectedPlatforms, platform)
        /\ handleSavePlatformData(platform)
        /\ KeepMedia

handleApproveClick ==
    /\ Editing
    /\ isAllReady
    /\ showApproveModal' = TRUE
    /\ lastToggle' = NoToggle
    /\ Act
    /\ UNCHANGED <<edOpen, localVideo, selectedPlatforms,
                   distributionConfigs, ytData, igData, ttData,
                   platformSettings, storeVars, backVars>>
    /\ KeepMedia

\* ApproveConfirmationModal's onClose
CancelApprove ==
    /\ edOpen /\ showApproveModal
    /\ showApproveModal' = FALSE
    /\ Act
    /\ UNCHANGED <<edOpen, localVideo, selectedPlatforms,
                   distributionConfigs, ytData, igData, ttData,
                   platformSettings, lastToggle, storeVars, backVars>>
    /\ KeepMedia

\* The store calls of confirmApprove, in the order it makes them:
\* updateDoc(distributionConfig), then in approveVideo updateDoc(status),
\* getDoc and the calls of recalculateProjectStats; one of them may fail.
ApproveCalls == <<"updateConfig", "updateStatus", "getDoc", "stats">>

\* The store after the calls made before the failing one.  A failure
\* inside recalculateProjectStats is caught there and writes nothing.
StoreAfterApprove_ConfigErrorIgnored(failing) ==
    LET saved == updateVideoDistributionConfig(Store, EditedId,
                                               distributionConfigs)
        written == [saved EXCEPT !.videos[EditedId].status = "approved"]
        halfSaved == [Store EXCEPT !.videos[EditedId].status = "approved"]
    IN  IF failing = NoFailure THEN approveVideo(saved, EditedId)
        ELSE IF failing = "updateConfig" THEN halfSaved
        ELSE IF failing = "updateStatus" THEN saved
        ELSE written

StoreAfterApprove(failing) ==
    LET saved == updateVideoDistributionConfig(Store, EditedId,
                                               distributionConfigs)
        written == [saved EXCEPT !.videos[EditedId].status = "approved"]
    IN  IF failing = NoFailure THEN approveVideo(saved, EditedId)
        ELSE IF failing = "updateConfig" THEN Store
        ELSE IF failing = "updateStatus" THEN saved
        ELSE written

\* approveVideo rejects, and confirmApprove goes to its catch, unless the
\* failure is the one recalculateProjectStats catches itself.
ApproveRejects(failing) == failing \notin {NoFailure, "stats"}

confirmApprove ==
    /\ edOpen /\ showApproveModal
    /\ \E failing \in {NoFailure} \cup
                       { ApproveCalls[i] : i \in 1..Len(ApproveCalls) } :
        /\ Commit(StoreAfterApprove(failing))
        /\ IF ApproveRejects(failing)
           THEN /\ showApproveModal' = FALSE
                /\ lastToggle' = NoToggle
                /\ KeepMedia
                /\ UNCHANGED <<edOpen, localVideo, selectedPlatforms,
                               distributionConfigs, ytData, igData, ttData,
                               platformSettings>>
           ELSE EditorClosed([localVideo EXCEPT
                                !.status = "approved",
                                !.distributionConfig = distributionConfigs])
        /\ ActWith([ran |-> TRUE, failing |-> failing,
                    rejected |-> ApproveRejects(failing),
                    stored |-> videos[EditedId].distributionConfig,
                    memory |-> distributionConfigs,
                    before |-> Store])
    /\ UNCHANGED backVars

handleDismiss ==
    /\ Editing
    /\ Commit(dismissVideo(Store, EditedId))
    /\ EditorClosed([localVideo EXCEPT !.status = "dismissed"])
    /\ Act
    /\ UNCHANGED backVars

handleRestore ==
    /\ edOpen /\ localVideo.status = "dismissed"
    /\ Commit(unapproveVideo(Store, EditedId))
    /\ EditorClosed([localVideo EXCEPT !.status = "pending"])
    /\ Act
    /\ UNCHANGED backVars

\* The <video> element has read the file; the effect on [videoDimensions,
\* videoDuration] then enforces the YouTube rule.
onLoadedMetadata ==
    /\ edOpen /\ media.loads /\ videoDimensions = Undefined
    /\ LET dimensions == [width |-> media.videoWidth,
                          height |-> media.videoHeight]
           duration == [value |-> media.duration]
           ruleType == getYouTubeRuleType(dimensions, duration)
       IN  /\ videoDimensions' = dimensions
           /\ videoDuration' = duration
           /\ IF ruleType # NullValue /\ platformSettings["youtube"] # ruleType
              THEN updatePostTypeForPlatform("youtube", ruleType)
              ELSE /\ lastToggle' = NoToggle
                   /\ Act
                   /\ UNCHANGED <<edOpen, localVideo, selectedPlatforms,
                                  distributionConfigs, ytData, igData,
                                  ttData, platformSettings,
                                  showApproveModal, storeVars, backVars>>

\* ------------------------------------------------------------- SpecEditor
\* One uploaded, transcribed video of project p1, listed in VideosView.
InitEditor ==
    \E format \in {"vertical", "horizontal"} :
        LET doc == NewVideoDoc("p1", UploadStatus, format)
            st == saveVideoMetadata(
                     [videos |-> [id \in VideoIds |-> NoDoc],
                      projects |-> [p \in ProjectIds |-> NewProject]],
                     EditedId, doc)
        IN  /\ videos = st.videos
            /\ projects = st.projects
            /\ StatsIdle /\ SessionsIdle
            /\ edOpen = FALSE
            /\ localVideo = doc
            /\ selectedPlatforms = <<>>
            /\ distributionConfigs = <<>>
            /\ ytData = defaultYt
            /\ igData = defaultSocial
            /\ ttData = defaultSocial
            /\ platformSettings = [p \in Platforms |-> "reel"]
            /\ showApproveModal = FALSE
            /\ lastToggle = NoToggle
            /\ steps = 0
            /\ videoDimensions = Undefined
            /\ videoDuration = Undefined
            /\ media = NoMedia
            /\ lastApprove = NoApprove
            /\ DistIdle

NextEditor ==
    \/ OpenEditor
    \/ CloseEditor
    \/ TogglePlatform
    \/ ToggleAccount
    \/ SetPostType
    \/ EditTitle
    \/ EditDescription
    \/ EditCaption
    \/ SavePlatformData
    \/ handleApproveClick
    \/ CancelApprove
    \/ confirmApprove
    \/ handleDismiss
    \/ handleRestore

SpecEditor == InitEditor /\ [][NextEditor]_vars

\* ----------------------------------------- SpecMedia, SpecEligibility
\* What the <video> element reads from a file: videoWidth, videoHeight and
\* duration (in seconds).
MediaFile(w, h, d) ==
    [loads |-> TRUE, videoWidth |-> w, videoHeight |-> h, duration |-> d]

\* Widths for a height of 100, and durations, around the limits of the
\* rules.
WidthSamples == {49, 50, 60, 85, 86, 90, 110, 111}
DurationSamples == {0, 2, 3, 10, 45, 59, 60, 90, 3600, 3601}

AllMedia ==
    { MediaFile(w, 100, d) : w \in WidthSamples, d \in DurationSamples }
    \cup { MediaFile(0, 0, d) : d \in DurationSamples }
    \cup { MediaFile(100, 0, d) : d \in DurationSamples }

MediaSamples ==
    { MediaFile(50, 100, 45), MediaFile(50, 100, 90), MediaFile(50, 100, 60),
      MediaFile(111, 100, 45), MediaFile(60, 100, 2), MediaFile(50, 100, 0) }

\* One uploaded, transcribed video of project p1 whose file is one of files.
InitWithMedia(files) ==
    \E format \in {"vertical", "horizontal"}, file \in files :
        LET doc == NewVideoDoc("p1", UploadStatus, format)
            st == saveVideoMetadata(
                     [videos |-> [id \in VideoIds |-> NoDoc],
                      projects |-> [p \in ProjectIds |-> NewProject]],
                     EditedId, doc)
        IN  /\ videos = st.videos
            /\ projects = st.projects
            /\ StatsIdle /\ SessionsIdle
            /\ edOpen = FALSE
            /\ localVideo = doc
            /\ selectedPlatforms = <<>>
            /\ distributionConfigs = <<>>
            /\ ytData = defaultYt
            /\ igData = defaultSocial
            /\ ttData = defaultSocial
            /\ platformSettings = [p \in Platforms |-> "reel"]
            /\ showApproveModal = FALSE
            /\ lastToggle = NoToggle
            /\ steps = 0
            /\ videoDimensions = Undefined
            /\ videoDuration = Undefined
            /\ media = file
            /\ lastApprove = NoApprove
            /\ DistIdle

\* The operator choosing platforms, accounts and post types and writing
\* the texts while the file is read.
InitMedia == InitWithMedia(MediaSamples)

NextMedia ==
    \/ OpenEditor
    \/ CloseEditor
    \/ onLoadedMetadata
    \/ TogglePlatform
    \/ ToggleAccount
    \/ SetPostType
    \/ EditTitle
    \/ EditDescription
    \/ EditCaption
    \/ SavePlatformData

SpecMedia == InitMedia /\ [][NextMedia]_vars

\* The rules on every sample file: the editor is opened, reads the file
\* and is closed.
InitEligibility == InitWithMedia(AllMedia)

NextEligibility ==
    \/ OpenEditor
    \/ onLoadedMetadata
    \/ CloseEditor

SpecEligibility == InitEligibility /\ [][NextEligibility]_vars

\* ------------------------------------------- the distribution queue
\* The video the queue and the calendar work on.
DistId == EditedId

HasToken(accountId) ==
    \E i \in Integrations : i.id = accountId /\ i.hasToken

RemoteId(n) == "x" \o ToString(n)

\* where("status", "in", ["approved"])
InDistributionQuery_AlsoPending(doc) == doc.status \in {"approved", "pending"}

InDistributionQuery(doc) == doc.status = "approved"

\* v.scheduledDate || v.status === 'scheduled' || v.status === 'published'
InCalendarQuery(doc) ==
    doc.scheduledDate # NoDate \/ doc.status \in {"scheduled", "published"}

\* Object.keys(initialConfigs): the platforms, by first occurrence
RECURSIVE PlatformOrder(_)
PlatformOrder(configs) ==
    IF Len(configs) = 0
    THEN <<>>
    ELSE LET rest == PlatformOrder(SubSeq(configs, 1, Len(configs) - 1))
             p == configs[Len(configs)].platform
         IN  IF Includes(rest, p) THEN rest ELSE Append(rest, p)

RECURSIVE FlatByPlatform(_, _)
FlatByPlatform(configs, platforms) ==
    IF Len(platforms) = 0
    THEN <<>>
    ELSE LET OfFirst(c) == c.platform = platforms[1]
         IN  SelectSeq(configs, OfFirst)
                \o FlatByPlatform(configs, Tail(platforms))

ActiveConfigs_OnlyToggledOn(video) ==
    LET On(c) == Includes(video.platforms, c.platform)
        kept == SelectSeq(video.distributionConfig, On)
    IN  FlatByPlatform(kept, PlatformOrder(kept))

\* Object.values(configs).flat(), configs as loadIntegrations grouped them
ActiveConfigs(video) ==
    FlatByPlatform(video.distributionConfig,
                   PlatformOrder(video.distributionConfig))

\* The entries the loop uploads: YouTube entries of an account with a token.
Uploadable(active) ==
    { i \in 1..Len(active) :
        active[i].platform = "youtube" /\ HasToken(active[i].accountId) }

\* The next entry the loop uploads at or after position from; 0 when none.
NextCall(active, from) ==
    LET S == { i \in Uploadable(active) : i >= from }
    IN  IF S = {} THEN 0 ELSE CHOOSE i \in S : \A j \in S : i <= j

SetExternalId(configs, platform, accountId, ext) ==
    [i \in 1..Len(configs) |->
        IF configs[i].platform = platform /\ configs[i].accountId = accountId
        THEN [configs[i] EXCEPT !.externalId = ext]
        ELSE configs[i]]

\* config.externalId = response.id, then on to the next entry
OnUploadOk(s, ext) ==
    [s EXCEPT !.active[s.pos].externalId = ext,
              !.log[Len(s.log)] = [@ EXCEPT !.result = "ok", !.id = ext],
              !.state = "next"]

OnUploadError_Continue(s) ==
    [s EXCEPT !.log[Len(s.log)] = [@ EXCEPT !.result = "failed"],
              !.state = "next"]

\* catch (uploadError): alert, setIsSending(false), return
OnUploadError(s) ==
    [s EXCEPT !.log[Len(s.log)] = [@ EXCEPT !.result = "failed"],
              !.state = "failed"]

DistFrame ==
    UNCHANGED <<backVars, editorVars, mediaVars, lastApprove, steps>>

\* onSnapshot of subscribeToDistributionVideos: setVideos(videosData)
DeliverDistribution ==
    LET listed == IF InDistributionQuery(videos[DistId])
                  THEN videos[DistId] ELSE NoDoc
    IN  /\ dvVideo # listed
        /\ dvVideo' = listed
        /\ selAliased' = FALSE
        /\ lastOp' = NoOp
        /\ UNCHANGED <<processingIds, selectedVideo, isModalOpen, sending,
                       uploads, remote, calendarVars, storeVars>>
        /\ DistFrame

\* The operator enters the distribution view again: its state is new.
MountDistributionView ==
    /\ ~isModalOpen
    /\ processingIds \/ selectedVideo # NoDoc
    /\ dvVideo' = NoDoc
    /\ processingIds' = FALSE
    /\ selectedVideo' = NoDoc
    /\ selAliased' = FALSE
    /\ sending' = SendIdle
    /\ lastOp' = NoOp
    /\ UNCHANGED <<isModalOpen, uploads, remote, calendarVars, storeVars>>
    /\ DistFrame

openDistributionModal ==
    /\ dvVideo # NoDoc
    /\ ~isModalOpen
    /\ ~processingIds
    /\ selectedVideo' = dvVideo
    /\ selAliased' = TRUE
    /\ isModalOpen' = TRUE
    /\ sending' = SendIdle
    /\ lastOp' = NoOp
    /\ UNCHANGED <<dvVideo, processingIds, uploads, remote, calendarVars,
                   storeVars>>
    /\ DistFrame

\* onClose of the modal
CloseModal ==
    /\ isModalOpen
    /\ sending.state # "uploading"
    /\ isModalOpen' = FALSE
    /\ lastOp' = NoOp
    /\ UNCHANGED <<dvVideo, processingIds, selectedVideo, selAliased, sending,
                   uploads, remote, calendarVars, storeVars>>
    /\ DistFrame

\* The unapprove button of the list
confirmUnapprove ==
    /\ dvVideo # NoDoc
    /\ ~isModalOpen
    /\ ~processingIds
    /\ Commit(unapproveVideo(Store, DistId))
    /\ lastOp' = [op |-> "unapproveVideo",
                  persisted |-> videos[DistId].status]
    /\ dvVideo' = NoDoc
    /\ processingIds' = TRUE
    /\ selAliased' = FALSE
    /\ UNCHANGED <<selectedVideo, isModalOpen, sending, uploads, remote,
                   calendarVars>>
    /\ DistFrame

handleReturnToEdit ==
    /\ isModalOpen
    /\ sending.state # "uploading"
    /\ Commit(unapproveVideo(Store, DistId))
    /\ lastOp' = [op |-> "unapproveVideo",
                  persisted |-> videos[DistId].status]
    /\ isModalOpen' = FALSE
    /\ UNCHANGED <<dvVideo, processingIds, selectedVideo, selAliased, sending,
                   uploads, remote, calendarVars>>
    /\ DistFrame

\* onDistribute(video.id, activeConfigs, finalDate); onClose()
Finalize(s) ==
    /\ Commit(markVideoAsProcessing(Store, DistId, s.active, s.finalDate))
    /\ lastOp' = [op |-> "markVideoAsProcessing",
                  persisted |-> videos[DistId].status,
                  snapshot |-> selectedVideo.status,
                  before |-> videos[DistId],
                  loaded |-> selectedVideo.distributionConfig,
                  configs |-> s.active,
                  date |-> s.finalDate]
    /\ sending' = [s EXCEPT !.state = "done", !.pos = 0]
    /\ isModalOpen' = FALSE
    /\ processingIds' = TRUE

\* await uploadVideoToYouTube for entry i
IssueCall(s, i) ==
    /\ uploads < MaxUploads
    /\ sending' = [s EXCEPT
          !.state = "uploading",
          !.pos = i,
          !.log = Append(@, [accountId |-> s.active[i].accountId,
                             result |-> "pending", id |-> NoId])]
    /\ uploads' = uploads + 1
    /\ lastOp' = NoOp
    /\ UNCHANGED <<storeVars, isModalOpen, processingIds>>

\* The loop of handleConfirm, from position from on.
Continue(s, from) ==
    LET i == NextCall(s.active, from)
    IN  IF i = 0
        THEN Finalize(s) /\ UNCHANGED uploads
        ELSE IssueCall(s, i)

handleConfirm ==
    \E finalDate \in {NoDate} \cup ScheduleTimes :
        LET active == ActiveConfigs(selectedVideo)
        IN  /\ isModalOpen
            /\ sending.state # "uploading"
            /\ Len(active) > 0
            /\ Continue([state |-> "idle", active |-> active, pos |-> 0,
                         finalDate |-> finalDate, log |-> <<>>], 1)
            /\ UNCHANGED <<dvVideo, selectedVideo, selAliased, remote,
                           calendarVars>>
            /\ DistFrame

\* uploadVideoToYouTube returns an id or throws.
UploadReturns ==
    \E ok \in BOOLEAN :
        /\ sending.state = "uploading"
        /\ LET ext == RemoteId(uploads)
               entry == sending.active[sending.pos]
               s == IF ok THEN OnUploadOk(sending, ext)
                    ELSE OnUploadError(sending)
               marked == SetExternalId(selectedVideo.distributionConfig,
                                       entry.platform, entry.accountId, ext)
           IN  /\ remote' = IF ok THEN remote \cup {ext} ELSE remote
               /\ selectedVideo' =
                     IF ok
                     THEN [selectedVideo EXCEPT !.distributionConfig = marked]
                     ELSE selectedVideo
               /\ dvVideo' =
                     IF ok /\ selAliased
                     THEN [dvVideo EXCEPT !.distributionConfig = marked]
                     ELSE dvVideo
               /\ IF s.state = "failed"
                  THEN /\ sending' = s
                       /\ lastOp' = NoOp
                       /\ UNCHANGED <<storeVars, isModalOpen, processingIds,
                                      uploads>>
                  ELSE Continue(s, s.pos + 1)
        /\ UNCHANGED <<selAliased, calendarVars>>
        /\ DistFrame

\* ------------------------------------------------------------ the calendar
\* onSnapshot of subscribeToAllScheduledVideos: setVideos(data)
DeliverCalendar ==
    LET listed == IF InCalendarQuery(videos[DistId])
                  THEN videos[DistId] ELSE NoDoc
    IN  /\ cvVideo # listed
        /\ cvVideo' = listed
        /\ lastOp' = NoOp
        /\ UNCHANGED <<previewVideo, showCancelModal, deleting, queueVars,
                       storeVars>>
        /\ DistFrame

\* onClick={() => setPreviewVideo(video)}
OpenPreview ==
    /\ cvVideo # NoDoc
    /\ previewVideo = NoDoc
    /\ previewVideo' = cvVideo
    /\ lastOp' = NoOp
    /\ UNCHANGED <<cvVideo, showCancelModal, deleting, queueVars, storeVars>>
    /\ DistFrame

\* onClose={() => setPreviewVideo(null)}
ClosePreview ==
    /\ previewVideo # NoDoc
    /\ ~showCancelModal
    /\ previewVideo' = NoDoc
    /\ lastOp' = NoOp
    /\ UNCHANGED <<cvVideo, showCancelModal, deleting, queueVars, storeVars>>
    /\ DistFrame

CanCancel_AnyStatus(video) == video # NoDoc

\* previewVideo && previewVideo.status === 'scheduled'
CanCancel(video) == video # NoDoc /\ video.status = "scheduled"

handleCancelClick ==
    /\ ~showCancelModal
    /\ CanCancel(previewVideo)
    /\ showCancelModal' = TRUE
    /\ lastOp' = NoOp
    /\ UNCHANGED <<cvVideo, previewVideo, deleting, queueVars, storeVars>>
    /\ DistFrame

\* onClose of the cancel confirmation
DismissCancelModal ==
    /\ showCancelModal
    /\ deleting = NotDeleting
    /\ showCancelModal' = FALSE
    /\ lastOp' = NoOp
    /\ UNCHANGED <<cvVideo, previewVideo, deleting, queueVars, storeVars>>
    /\ DistFrame

\* distributionConfig.find(c => c.platform === 'youtube' && c.externalId):
\* its position, 0 when there is none
FirstPublished(configs) ==
    LET S == { i \in 1..Len(configs) :
                 configs[i].platform = "youtube"
                    /\ configs[i].externalId # NoId }
    IN  IF S = {} THEN 0 ELSE CHOOSE i \in S : \A j \in S : i <= j

\* The external ids the entries of a config list carry.
CarriedIds(configs) ==
    { configs[i].externalId : i \in 1..Len(configs) } \ {NoId}

\* await cancelVideoScheduling(previewVideo.id); setPreviewVideo(null);
\* attempted lists the remote deletes of this cancel with their responses.
FinishCancel(attempted) ==
    /\ Commit(cancelVideoScheduling(Store, DistId))
    /\ lastOp' = [op |-> "cancelVideoScheduling",
                  by |-> "calendar",
                  persisted |-> videos[DistId].status,
                  snapshot |-> previewVideo.status,
                  before |-> videos[DistId],
                  carried |-> CarriedIds(previewVideo.distributionConfig),
                  attempted |-> attempted]
    /\ previewVideo' = NoDoc
    /\ showCancelModal' = FALSE
    /\ deleting' = NotDeleting

onConfirmCancel ==
    LET configs == previewVideo.distributionConfig
        i == FirstPublished(configs)
    IN  /\ showCancelModal
        /\ deleting = NotDeleting
        /\ IF i # 0 /\ HasToken(configs[i].accountId)
           THEN /\ deleting' = [state |-> "deleting",
                                id |-> configs[i].externalId]
                /\ lastOp' = NoOp
                /\ UNCHANGED <<previewVideo, showCancelModal, storeVars>>
           ELSE FinishCancel(<<>>)
        /\ UNCHANGED <<cvVideo, queueVars>>
        /\ DistFrame

\* The status of the platform's response to DELETE videos?id=...
DeleteResponses(id) ==
    IF id \in remote THEN {"204", "403"} ELSE {"404", "500"}

deleteVideoFromYouTube_NotFoundThrows(status) ==
    IF status = "204" THEN "returned" ELSE "thrown"

deleteVideoFromYouTube_ErrorsSwallowed(status) == "returned"

\* if (res.status === 404) return; if (!res.ok) throw
deleteVideoFromYouTube(status) ==
    IF status = "404" THEN "returned"
    ELSE IF status \notin {"200", "204"} THEN "thrown"
    ELSE "returned"

\* deleteVideoFromYouTube returns or throws.
DeleteReturns ==
    /\ deleting # NotDeleting
    /\ \E status \in DeleteResponses(deleting.id) :
        /\ remote' = IF status = "204" THEN remote \ {deleting.id}
                     ELSE remote
        /\ IF deleteVideoFromYouTube(status) = "returned"
           THEN FinishCancel(<<[id |-> deleting.id, status |-> status]>>)
           ELSE /\ deleting' = NotDeleting
                /\ showCancelModal' = FALSE
                /\ lastOp' = [op |-> "cancelAborted",
                              before |-> videos[DistId],
                              attempted |-> <<[id |-> deleting.id,
                                               status |-> status]>>]
                /\ UNCHANGED <<previewVideo, storeVars>>
        /\ UNCHANGED <<cvVideo, dvVideo, processingIds, selectedVideo,
                       selAliased, isModalOpen, sending, uploads>>
        /\ DistFrame

\* The video is removed on the platform itself.
RemovedOnPlatform ==
    \E id \in remote :
        /\ remote' = remote \ {id}
        /\ lastOp' = NoOp
        /\ UNCHANGED <<dvVideo, processingIds, selectedVideo, selAliased,
                       isModalOpen, sending, uploads, calendarVars,
                       storeVars>>
        /\ DistFrame

\* ------------------------------------------------------ the other sessions
OtherCall(op, st) ==
    /\ Commit(st)
    /\ lastOp' = [op |-> op, by |-> "other",
                  persisted |-> videos[DistId].status]
    /\ UNCHANGED <<queueVars, calendarVars>>
    /\ DistFrame

\* The unapprove button of a distribution view of another session
OtherUnapprove ==
    /\ videos[DistId].status = "approved"
    /\ OtherCall("unapproveVideo", unapproveVideo(Store, DistId))

\* handleDismiss in an editor of another session
OtherDismiss ==
    /\ videos[DistId].status \in {"pending", "approved"}
    /\ OtherCall("dismissVideo", dismissVideo(Store, DistId))

\* handleRestore in an editor of another session
OtherRestore ==
    /\ videos[DistId].status = "dismissed"
    /\ OtherCall("unapproveVideo", unapproveVideo(Store, DistId))

\* confirmApprove in an editor of another session, the lists left as stored
OtherApprove ==
    /\ videos[DistId].status = "pending"
    /\ OtherCall("approveVideo", approveVideo(Store, DistId))

\* onConfirmCancel in a calendar of another session that has just loaded
\* the video
OtherCancel ==
    LET configs == videos[DistId].distributionConfig
        i == FirstPublished(configs)
    IN  /\ videos[DistId].status = "scheduled"
        /\ Commit(cancelVideoScheduling(Store, DistId))
        /\ remote' = IF i # 0 /\ HasToken(configs[i].accountId)
                     THEN remote \ {configs[i].externalId} ELSE remote
        /\ lastOp' = [op |-> "cancelVideoScheduling", by |-> "other",
                      persisted |-> "scheduled", snapshot |-> "scheduled"]
        /\ UNCHANGED <<dvVideo, processingIds, selectedVideo, selAliased,
                       isModalOpen, sending, uploads, calendarVars>>
        /\ DistFrame

\* --------------------------------------------------------------- SpecDist
\* An entry as toggleAccountSelection builds it from filled-in metadata.
EditorEntry(platform, accountId) ==
    [platform |-> platform, accountId |-> accountId,
     postType |-> IF platform = "youtube" THEN "shorts" ELSE "reel",
     externalId |-> NoId,
     metadata |-> IF platform = "youtube"
                  THEN [title |-> "T", caption |-> "D", tags |-> "",
                        playlistId |-> NullValue, categoryId |-> "22"]
                  ELSE [caption |-> "C"]]

\* An account that was selected in the editor and whose integration
\* getIntegrations returns no more, or returns without an access token:
\* it was removed or connected again since.
LostIntegrations ==
    { [id |-> "y3", platform |-> "youtube", hasToken |-> FALSE] }

PlatformOf(accountId) ==
    (CHOOSE i \in Integrations \cup LostIntegrations :
        i.id = accountId).platform

\* The accounts selected, in the order the operator selected them.
ApprovedSelections ==
    { <<"y1">>, <<"y1", "y2">>, <<"y1", "i1", "y2">>, <<"i1">>,
      <<"y1", "i1">>, <<"y1", "y3">> }

\* The platforms that are on when the queue loads the video: those of the
\* selected accounts, except on the video with y1 and i1, where Instagram
\* was switched off before the approval, its entry staying in the list,
\* and TikTok was switched on in the editor after it.
PlatformsOn(accounts, configs) ==
    IF accounts = <<"y1", "i1">>
    THEN <<"youtube", "tiktok">>
    ELSE PlatformOrder(configs)

\* One video approved in the editor, the queue and the calendar not loaded.
InitDist ==
    \E accounts \in ApprovedSelections :
        LET configs == [i \in 1..Len(accounts) |->
                           EditorEntry(PlatformOf(accounts[i]), accounts[i])]
            doc == [NewVideoDoc("p1", UploadStatus, UploadFormat) EXCEPT
                       !.platforms = PlatformsOn(accounts, configs),
                       !.distributionConfig = configs]
            st == approveVideo(
                     saveVideoMetadata(
                        [videos |-> [id \in VideoIds |-> NoDoc],
                         projects |-> [p \in ProjectIds |-> NewProject]],
                        DistId, doc),
                     DistId)
        IN  /\ videos = st.videos
            /\ projects = st.projects
            /\ StatsIdle /\ SessionsIdle
            /\ EditorIdle
            /\ DistIdle

NextDist ==
    \/ DeliverDistribution
    \/ MountDistributionView
    \/ openDistributionModal
    \/ CloseModal
    \/ confirmUnapprove
    \/ handleReturnToEdit
    \/ handleConfirm
    \/ UploadReturns
    \/ DeliverCalendar
    \/ OpenPreview
    \/ ClosePreview
    \/ handleCancelClick
    \/ DismissCancelModal
    \/ onConfirmCancel
    \/ DeleteReturns
    \/ RemovedOnPlatform
    \/ OtherUnapprove
    \/ OtherDismiss
    \/ OtherRestore
    \/ OtherApprove
    \/ OtherCancel

SpecDist == InitDist /\ [][NextDist]_vars

\* ----------------------------------------------------------- SpecApproved
\* The accounts selected on the video approved earlier.
ReviewedSelections == { <<"y1", "i1">> }

\* One video approved in the editor and listed by VideosView under the
\* approved videos, where a click opens the editor on it again.
InitApproved ==
    \E accounts \in ReviewedSelections :
        LET configs == [i \in 1..Len(accounts) |->
                           EditorEntry(PlatformOf(accounts[i]), accounts[i])]
            doc == [NewVideoDoc("p1", UploadStatus, UploadFormat) EXCEPT
                       !.platforms = PlatformOrder(configs),
                       !.distributionConfig = configs]
            st == approveVideo(
                     saveVideoMetadata(
                        [videos |-> [id \in VideoIds |-> NoDoc],
                         projects |-> [p \in ProjectIds |-> NewProject]],
                        EditedId, doc),
                     EditedId)
        IN  /\ videos = st.videos
            /\ projects = st.projects
            /\ StatsIdle /\ SessionsIdle
            /\ edOpen = FALSE
            /\ localVideo = st.videos[EditedId]
            /\ selectedPlatforms = <<>>
            /\ distributionConfigs = <<>>
            /\ ytData = defaultYt
            /\ igData = defaultSocial
            /\ ttData = defaultSocial
            /\ platformSettings = [p \in Platforms |-> "reel"]
            /\ showApproveModal = FALSE
            /\ lastToggle = NoToggle
            /\ steps = 0
            /\ videoDimensions = Undefined
            /\ videoDuration = Undefined
            /\ media = NoMedia
            /\ lastApprove = NoApprove
            /\ DistIdle

\* The operator looks at the approved video again: the platforms, the
\* accounts and the texts can be changed, the video can be dismissed and
\* restored.
NextApproved ==
    \/ OpenEditor
    \/ CloseEditor
    \/ TogglePlatform
    \/ ToggleAccount
    \/ EditTitle
    \/ EditDescription
    \/ EditCaption
    \/ SavePlatformData
    \/ handleDismiss
    \/ handleRestore

SpecApproved == InitApproved /\ [][NextApproved]_vars

\* -------------------------------------------------------------- SpecStats
RECURSIVE SeqsUpTo(_, _)
SeqsUpTo(S, n) ==
    IF n = 0
    THEN { <<>> }
    ELSE LET shorter == SeqsUpTo(S, n - 1)
         IN  shorter \cup { Append(s, x) : s \in shorter, x \in S }

\* The statuses of the project in the documented stats example.
ExampleStatuses ==
    <<"dismissed", "approved", "scheduled", "pending", "published">>

InitStats ==
    /\ StoreInit
    /\ EditorIdle
    /\ DistIdle
    /\ SessionsIdle
    /\ statsIn \in SeqsUpTo(VideoStatus, MaxStatuses) \cup {ExampleStatuses}
    /\ statsOut = NoStats

ScanProject ==
    /\ statsOut = NoStats
    /\ statsOut' = ProjectStatsOf(statsIn)
    /\ UNCHANGED <<statsIn, sessionVars, storeVars, uiVars>>

NextStats == ScanProject

SpecStats == InitStats /\ [][NextStats]_vars

\* -------------------------------------------------------------- SpecFaults
\* The store calls of recalculateProjectStats: getDocs scans the videos of
\* the project, updateDoc writes the project.
StatsCalls == {"getDocs", "updateDoc"}

\* The store a service leaves when the given call of its recomputation
\* fails: the error is caught where the project has not been written.
AfterStatsFailure(failing, after) ==
    IF failing = NoFailure THEN after
    ELSE [after EXCEPT !.projects = projects]

\* The service's promise rejects.
ServiceRejects_StatsErrorThrown(failing) == failing # NoFailure

ServiceRejects(failing) == failing \notin ({NoFailure} \cup StatsCalls)

\* The stats of some project are not the ones a recomputation would write.
StatsStale ==
    \E pid \in ProjectIds :
        projects[pid] # recalculateProjectStats(projects, videos, pid)[pid]

\* One operator calls a service for video id; after is the store the
\* service leaves when every call succeeds.
ServiceCall(name, id, after) ==
    \E failing \in {NoFailure} \cup
                   (IF after.videos[id].projectId # NoProject
                    THEN StatsCalls ELSE {}) :
        /\ steps < MaxCalls
        /\ steps' = steps + 1
        /\ Commit(AfterStatsFailure(failing, after))
        /\ lastOp' = [op |-> name, by |-> "operator", id |-> id,
                      project |-> after.videos[id].projectId,
                      failing |-> failing,
                      rejected |-> ServiceRejects(failing),
                      before |-> projects,
                      stale |-> StatsStale]
        /\ UNCHANGED <<backVars, editorVars, mediaVars, lastApprove,
                       queueVars, calendarVars>>

UploadCall ==
    \E id \in VideoIds, pid \in ProjectIds \cup {NoProject} :
        /\ ~Exists(id)
        /\ ServiceCall("saveVideoMetadata", id,
              saveVideoMetadata(Store, id,
                                NewVideoDoc(pid, UploadStatus, UploadFormat)))

ApproveCall ==
    \E id \in VideoIds :
        /\ Exists(id)
        /\ ServiceCall("approveVideo", id, approveVideo(Store, id))

DismissCall ==
    \E id \in VideoIds :
        /\ Exists(id)
        /\ ServiceCall("dismissVideo", id, dismissVideo(Store, id))

UnapproveCall ==
    \E id \in VideoIds :
        /\ Exists(id)
        /\ ServiceCall("unapproveVideo", id, unapproveVideo(Store, id))

DistributeCall ==
    \E id \in VideoIds, configs \in SampleConfigs,
       date \in ScheduleTimes \cup {NoDate} :
        /\ Exists(id)
        /\ ServiceCall("markVideoAsProcessing", id,
              markVideoAsProcessing(Store, id, configs, date))

CancelCall ==
    \E id \in VideoIds :
        /\ Exists(id)
        /\ ServiceCall("cancelVideoScheduling", id,
              cancelVideoScheduling(Store, id))

\* What the media store answers to deleteObject; no-path when deleteVideo
\* is called without a storagePath.
StorageAnswers ==
    {"no-path", "deleted", "storage/object-not-found", "storage/unauthorized"}

\* The store calls deleteVideo makes itself: getDoc(videoRef), deleteDoc.
DeleteCalls == {"getDoc", "deleteDoc"}

deleteVideoWith_NotFoundThrows(st, videoId, storage, failing) ==
    LET removed == [st EXCEPT !.videos[videoId] = NoDoc]
    IN  IF failing \in DeleteCalls \/ storage = "storage/object-not-found"
        THEN [store |-> st, rejected |-> TRUE]
        ELSE IF failing \in StatsCalls
        THEN [store |-> removed, rejected |-> FALSE]
        ELSE [store |-> deleteVideo(st, videoId), rejected |-> FALSE]

\* deleteVideo: the store it leaves and whether its promise rejects.  The
\* inner catch swallows whatever deleteObject throws; a failing getDoc or
\* deleteDoc goes to the outer catch, which throws it again; a failure
\* inside recalculateProjectStats is caught there.
deleteVideoWith(st, videoId, storage, failing) ==
    LET removed == [st EXCEPT !.videos[videoId] = NoDoc]
    IN  IF failing \in DeleteCalls
        THEN [store |-> st, rejected |-> TRUE]
        ELSE IF failing \in StatsCalls
        THEN [store |-> removed, rejected |-> FALSE]
        ELSE [store |-> deleteVideo(st, videoId), rejected |-> FALSE]

DeleteCall ==
    \E id \in VideoIds, storage \in StorageAnswers,
       failing \in {NoFailure} \cup DeleteCalls \cup StatsCalls :
        LET out == deleteVideoWith(Store, id, storage, failing)
        IN  /\ Exists(id)
            /\ failing \in StatsCalls => videos[id].projectId # NoProject
            /\ steps < MaxCalls
            /\ steps' = steps + 1
            /\ Commit(out.store)
            /\ lastOp' = [op |-> "deleteVideo", by |-> "operator", id |-> id,
                          project |-> videos[id].projectId,
                          storage |-> storage,
                          failing |-> failing,
                          rejected |-> out.rejected,
                          before |-> Store]
            /\ UNCHANGED <<backVars, editorVars, mediaVars, lastApprove,
                           queueVars, calendarVars>>

NextFaults ==
    \/ UploadCall
    \/ ApproveCall
    \/ DismissCall
    \/ UnapproveCall
    \/ DistributeCall
    \/ CancelCall
    \/ DeleteCall

SpecFaults == Init /\ [][NextFaults]_vars

\* --------------------------------------------------------------- SpecRace
\* Two sessions, each calling status services for its own video of the
\* same project.  A service is a sequence of awaited store calls, and the
\* calls of the two sessions reach the store in any order.
RaceProject == "p1"

VideoOf(session) == IF session = "a" THEN 1 ELSE 2

\* The status services and the status each writes.
StatusServices ==
    [approveVideo |-> "approved", dismissVideo |-> "dismissed",
     unapproveVideo |-> "pending"]

\* await updateDoc(videoRef, { status })
WriteStatus(session) ==
    \E op \in DOMAIN StatusServices :
        /\ inFlight[session].pc = "idle"
        /\ inFlight[session].calls < MaxSessionCalls
        /\ videos' = [videos EXCEPT
                         ![VideoOf(session)].status = StatusServices[op]]
        /\ inFlight' = [inFlight EXCEPT ![session] =
                           [pc |-> "written", op |-> op,
                            calls |-> @.calls + 1]]
        /\ UNCHANGED <<projects, statsVars, peer, uiVars>>

\* const snap = await getDoc(videoRef)
ReadBack(session) ==
    /\ inFlight[session].pc = "written"
    /\ videos[VideoOf(session)].projectId # NoProject
    /\ inFlight' = [inFlight EXCEPT ![session] =
                       [pc |-> "read", op |-> @.op, calls |-> @.calls,
                        projectId |-> videos[VideoOf(session)].projectId]]
    /\ UNCHANGED <<storeVars, statsVars, peer, uiVars>>

\* recalculateProjectStats: const snapshot = await getDocs(q), and the
\* counting loop on it
ScanVideos(session) ==
    /\ inFlight[session].pc = "read"
    /\ inFlight' = [inFlight EXCEPT ![session] =
                       [pc |-> "scanned", op |-> @.op, calls |-> @.calls,
                        projectId |-> @.projectId,
                        stats |-> ProjectStatsOf(
                            StatusesFrom(videos, @.projectId, 1))]]
    /\ UNCHANGED <<storeVars, statsVars, peer, uiVars>>

\* recalculateProjectStats: await updateDoc(projectRef, { videoCount,
\* stats })
WriteProject(session) ==
    /\ inFlight[session].pc = "scanned"
    /\ LET call == inFlight[session]
       IN  projects' = [projects EXCEPT ![call.projectId] =
                           [videoCount |-> call.stats.total,
                            stats |-> call.stats]]
    /\ inFlight' = [inFlight EXCEPT ![session] =
                       [pc |-> "idle", calls |-> @.calls]]
    /\ UNCHANGED <<videos, statsVars, peer, uiVars>>

\* Two uploaded videos of the project, its stats computed.
InitRace ==
    LET doc == NewVideoDoc(RaceProject, UploadStatus, UploadFormat)
        st == saveVideoMetadata(
                 saveVideoMetadata(
                    [videos |-> [id \in VideoIds |-> NoDoc],
                     projects |-> [p \in ProjectIds |-> NewProject]],
                    VideoOf("a"), doc),
                 VideoOf("b"), doc)
    IN  /\ videos = st.videos
        /\ projects = st.projects
        /\ StatsIdle /\ SessionsIdle
        /\ EditorIdle
        /\ DistIdle

NextRace ==
    \E session \in Sessions :
        \/ WriteStatus(session)
        \/ ReadBack(session)
        \/ ScanVideos(session)
        \/ WriteProject(session)

SpecRace == InitRace /\ [][NextRace]_vars

\* -------------------------------------------------------------- SpecPeers
\* A second operator session has the same video in its VideosView list and
\* opens its own detail editor on it.  Its editor holds the video and the
\* config list as it loaded them.
PeerOpen ==
    /\ ~peer.open
    /\ steps < MaxSteps
    /\ steps' = steps + 1
    /\ peer' = [open |-> TRUE, video |-> videos[EditedId],
                configs |-> videos[EditedId].distributionConfig,
                toggled |-> 0]
    /\ UNCHANGED <<storeVars, statsVars, inFlight, editorVars, mediaVars,
                   lastApprove, distVars>>

PeerClose ==
    /\ peer.open
    /\ steps < MaxSteps
    /\ steps' = steps + 1
    /\ peer' = PeerClosed
    /\ UNCHANGED <<storeVars, statsVars, inFlight, editorVars, mediaVars,
                   lastApprove, distVars>>

\* The entry toggleAccountSelection builds in the second session, from
\* the state its editor took from the video it loaded.
PeerEntry(platform, accountId) ==
    LET video == peer.video
        yt == IF video.youtubeMetadata # Undefined
              THEN video.youtubeMetadata ELSE defaultYt
        ig == IF video.instagramMetadata # Undefined
              THEN video.instagramMetadata ELSE defaultSocial
        tt == IF video.tiktokMetadata # Undefined
              THEN video.tiktokMetadata ELSE defaultSocial
        settings == InferPostTypes(InitialSettings(video), peer.configs)
    IN  [platform |-> platform, accountId |-> accountId,
         postType |-> settings[platform],
         externalId |-> NoId,
         metadata |->
            IF platform = "youtube"
            THEN [title |-> yt.title,
                  caption |-> yt.description,
                  tags |-> Join(yt.tags),
                  playlistId |-> OrNull(yt.playlistId),
                  categoryId |-> yt.categoryId]
            ELSE [caption |-> IF platform = "instagram" THEN ig.caption
                              ELSE tt.caption]]

\* toggleAccountSelection and saveDistributionConfigs in the second
\* session: the list is built from the list in its memory and written whole.
PeerToggleAccount ==
    \E platform \in Platforms :
        \E accountId \in AccountsOf(platform) :
            LET Others(c) ==
                    ~(c.platform = platform /\ c.accountId = accountId)
                selected ==
                    \E i \in 1..Len(peer.configs) : ~Others(peer.configs[i])
                newConfigs ==
                    IF selected
                    THEN SelectSeq(peer.configs, Others)
                    ELSE Append(peer.configs, PeerEntry(platform, accountId))
            IN  /\ peer.open
                /\ peer.video.status # "dismissed"
                /\ Includes(peer.video.platforms, platform)
                /\ steps < MaxSteps
                /\ steps' = steps + 1
                /\ Commit(updateVideoDistributionConfig(Store, EditedId,
                                                        newConfigs))
                /\ peer' = [peer EXCEPT
                               !.configs = newConfigs,
                               !.video.distributionConfig = newConfigs,
                               !.toggled = @ + 1]
                /\ UNCHANGED <<statsVars, inFlight, editorVars, mediaVars,
                               lastApprove, distVars>>

NextPeers ==
    \/ OpenEditor
    \/ CloseEditor
    \/ TogglePlatform
    \/ ToggleAccount
    \/ PeerOpen
    \/ PeerClose
    \/ PeerToggleAccount

SpecPeers == InitEditor /\ [][NextPeers]_vars

\* ----------------------------------------------------------------- claims
CountIn(S, statuses) ==
    Cardinality({ i \in 1..Len(statuses) : statuses[i] \in S })

VideosOf(pid) ==
    { id \in VideoIds : videos[id] # NoDoc /\ videos[id].projectId = pid }

VideosIn(pid, S) == { id \in VideosOf(pid) : videos[id].status \in S }

Distributed == {"scheduled", "published"}
Unreviewed == VideoStatus \ ({"dismissed", "approved"} \cup Distributed)

\* C1: after any sequence of service calls by one operator (create, approve,
\* dismiss, unapprove/restore, distribute, cancel scheduling, delete), every
\* project's stored stats and videoCount equal the counts of its current
\* videos partitioned by their current status.
C1_StatsMatchPartition ==
    \A pid \in ProjectIds :
        /\ projects[pid].stats.total = Cardinality(VideosOf(pid))
        /\ projects[pid].videoCount = Cardinality(VideosOf(pid))
        /\ projects[pid].stats.discarded
              = Cardinality(VideosIn(pid, {"dismissed"}))
        /\ projects[pid].stats.scheduledOrPublished
              = Cardinality(VideosIn(pid, Distributed))
        /\ projects[pid].stats.approved
              = Cardinality(VideosIn(pid, {"approved"}))
        /\ projects[pid].stats.pendingReview
              = Cardinality(VideosIn(pid, Unreviewed))

C1_Witness ==
    \E pid \in ProjectIds :
        /\ projects[pid].stats.total = 2
        /\ projects[pid].stats.scheduledOrPublished = 1
        /\ projects[pid].stats.discarded = 1

\* C2: the counting loop puts every scanned video in exactly one bucket:
\* dismissed -> discarded, scheduled or published -> scheduledOrPublished,
\* approved -> approved, anything else -> pendingReview; total is the number
\* of videos and the sum of the four buckets; the statuses [dismissed,
\* approved, scheduled, pending, published] give 5 / 1 / 1 / 2 / 1.
C2_Partition ==
    statsOut # NoStats =>
        /\ statsOut.total = Len(statsIn)
        /\ statsOut.discarded = CountIn({"dismissed"}, statsIn)
        /\ statsOut.scheduledOrPublished = CountIn(Distributed, statsIn)
        /\ statsOut.approved = CountIn({"approved"}, statsIn)
        /\ statsOut.pendingReview = CountIn(Unreviewed, statsIn)
        /\ statsOut.total = statsOut.discarded + statsOut.scheduledOrPublished
                              + statsOut.approved + statsOut.pendingReview
        /\ statsIn = ExampleStatuses
              => statsOut = [total |-> 5, pendingReview |-> 1, approved |-> 1,
                             scheduledOrPublished |-> 2, discarded |-> 1]

C2_Witness ==
    /\ statsIn = ExampleStatuses
    /\ statsOut # NoStats
    /\ statsOut.scheduledOrPublished = 2

\* ------------------------------------------------------ claims: the editor
ToggledOn == { selectedPlatforms[i] : i \in 1..Len(selectedPlatforms) }

EntriesOf(configs, platform) ==
    { i \in 1..Len(configs) : configs[i].platform = platform }

NonEmptyMeta(platform) ==
    IF platform = "youtube"
    THEN ytData.title # "" /\ ytData.description # ""
    ELSE IF platform = "instagram" THEN igData.caption # ""
    ELSE ttData.caption # ""

\* Text other than white space in every required field of the platform.
FilledMeta(platform) ==
    IF platform = "youtube"
    THEN ytData.title \notin {"", " "} /\ ytData.description \notin {"", " "}
    ELSE IF platform = "instagram" THEN igData.caption \notin {"", " "}
    ELSE ttData.caption \notin {"", " "}

ApproveConditions ==
    /\ ToggledOn # {}
    /\ \A p \in ToggledOn :
          /\ NonEmptyMeta(p)
          /\ EntriesOf(distributionConfigs, p) # {}

BecomesApproved ==
    /\ videos[EditedId].status # "approved"
    /\ videos'[EditedId].status = "approved"

\* C3: the status of the asset becomes approved only in a step taken while
\* at least one platform is toggled on, every toggled-on platform has its
\* required metadata non-empty and at least one config entry, and the
\* stored document then lists a config entry for every stored platform;
\* while one of the conditions fails the approve request is not accepted
\* and a confirmation is not pending, so the status stays as it is.
C3_ApproveOnlyWhenReady ==
    [][ /\ BecomesApproved =>
            /\ ApproveConditions
            /\ videos'[EditedId].platforms # <<>>
            /\ \A i \in 1..Len(videos'[EditedId].platforms) :
                  EntriesOf(videos'[EditedId].distributionConfig,
                            videos'[EditedId].platforms[i]) # {}
        /\ (edOpen /\ ~ApproveConditions) =>
            /\ ~showApproveModal
            /\ ~ENABLED handleApproveClick
      ]_vars

C3_Witness ==
    /\ videos[EditedId].status = "approved"
    /\ videos[EditedId].platforms # <<>>
    /\ projects["p1"].stats.approved = 1

ReadyFlag(platform) ==
    IF platform = "youtube" THEN isYouTubeReady
    ELSE IF platform = "instagram" THEN isInstagramReady
    ELSE isTikTokReady

AccountFlag(platform) ==
    IF platform = "youtube" THEN hasAccountForYoutube
    ELSE IF platform = "instagram" THEN hasAccountForInstagram
    ELSE hasAccountForTikTok

\* Platform x is on with its metadata filled and no config entry.
NoAccountCase(x) ==
    /\ Editing
    /\ x \in ToggledOn
    /\ FilledMeta(x)
    /\ EntriesOf(distributionConfigs, x) = {}

\* C4: when a platform is on with its required metadata filled and no
\* config entry, the approve request is rejected, the account flag of that
\* platform is false while its metadata flag is true, and the two flags of
\* every other platform are what that platform's own toggle, metadata and
\* entries make them.
C4_NoAccountFlag ==
    \A x \in Platforms :
        NoAccountCase(x) =>
            /\ ~isAllReady
            /\ ~ENABLED handleApproveClick
            /\ ~AccountFlag(x)
            /\ ReadyFlag(x)
            /\ \A y \in Platforms \ {x} :
                  /\ AccountFlag(y) =
                        (y \notin ToggledOn
                            \/ EntriesOf(distributionConfigs, y) # {})
                  /\ ReadyFlag(y) = (y \notin ToggledOn \/ FilledMeta(y))

C4_Witness ==
    /\ NoAccountCase("instagram")
    /\ "youtube" \in ToggledOn
    /\ EntriesOf(distributionConfigs, "youtube") # {}
    /\ AccountFlag("youtube")

Pairs(configs) ==
    { <<configs[i].platform, configs[i].accountId>> : i \in 1..Len(configs) }

\* The list without the entries of the account.
Without(configs, platform, accountId) ==
    LET Others(c) == ~(c.platform = platform /\ c.accountId = accountId)
    IN  SelectSeq(configs, Others)

\* C5 as stated: after two calls in a row on the same platform and account
\* the in-memory list and the stored list are each what they were before
\* the first call, and the stored list has the length it had.
C5_ToggleTwiceRestores ==
    lastToggle.count = 2 =>
        /\ distributionConfigs = lastToggle.before
        /\ videos[EditedId].distributionConfig = lastToggle.stored
        /\ Len(videos[EditedId].distributionConfig) = Len(lastToggle.stored)

\* C5, amended: after two calls in a row on the same platform and account
\* the stored list equals the in-memory list, has the length it had before
\* the first call and selects the same (platform, account) pairs; when the
\* entry was absent the in-memory list is the one before the first call, and
\* when it was present the list is the one before without that entry,
\* followed by a new entry of the account that has no external id and
\* carries the current shared post type and metadata.
C5_ToggleTwiceKeepsSelection ==
    lastToggle.count = 2 =>
        LET before == lastToggle.before
            platform == lastToggle.platform
            accountId == lastToggle.accountId
            n == Len(distributionConfigs)
        IN  /\ videos[EditedId].distributionConfig = distributionConfigs
            /\ n = Len(lastToggle.stored)
            /\ Pairs(distributionConfigs) = Pairs(before)
            /\ ~lastToggle.wasSelected => distributionConfigs = before
            /\ lastToggle.wasSelected =>
                  /\ SubSeq(distributionConfigs, 1, n - 1) =
                        Without(before, platform, accountId)
                  /\ distributionConfigs[n] =
                        [platform |-> platform, accountId |-> accountId,
                         postType |-> platformSettings[platform],
                         externalId |-> NoId,
                         metadata |-> PlatformMeta(platform)]

C5_Witness ==
    /\ lastToggle.count = 2
    /\ lastToggle.wasSelected
    /\ distributionConfigs # lastToggle.before
    /\ Len(distributionConfigs) = 2

\* ------------------------------------- claims: distribution and the calendar
Stored == videos[DistId]

\* The stored entry of a YouTube account carries an external id.
StoredIdOf(accountId) ==
    \E i \in 1..Len(Stored.distributionConfig) :
        /\ Stored.distributionConfig[i].platform = "youtube"
        /\ Stored.distributionConfig[i].accountId = accountId
        /\ Stored.distributionConfig[i].externalId # NoId

AllCallsOk ==
    \A k \in 1..Len(sending.log) : sending.log[k].result = "ok"

\* The call for B, the second of a run whose first call, for A, returned an
\* id, throws in this step.
SecondCallFails ==
    /\ sending.state = "uploading"
    /\ sending'.state = "failed"
    /\ Len(sending'.log) = 2
    /\ sending'.log[1].result = "ok"
    /\ sending'.log[2].result = "failed"

\* C6 as stated: when a distribute over A then B ends because the call for
\* B failed after the call for A succeeded, the stored entry of A has an
\* external id, the stored entry of B has none and the stored status is
\* the one before, approved.
C6_PartialFailureRecorded ==
    [][ SecondCallFails =>
           /\ StoredIdOf(sending.log[1].accountId)'
           /\ ~StoredIdOf(sending.log[2].accountId)'
           /\ videos'[DistId].status = videos[DistId].status
      ]_vars

\* C7: in the state a distribute leaves when it writes, every call of the
\* run succeeded, the status is scheduled with the given scheduledDate when
\* a time was given and published otherwise, the stored config list is the
\* submitted one with the id each call returned on its entry, and the stats
\* of the project count the video as scheduled or published.
C7_FullSuccess ==
    lastOp.op = "markVideoAsProcessing" =>
        /\ AllCallsOk
        /\ IF lastOp.date # NoDate
           THEN Stored.status = "scheduled"
                    /\ Stored.scheduledDate = lastOp.date
           ELSE Stored.status = "published"
        /\ Stored.distributionConfig = lastOp.configs
        /\ \A k \in 1..Len(sending.log) :
              \E i \in 1..Len(Stored.distributionConfig) :
                  /\ Stored.distributionConfig[i].platform = "youtube"
                  /\ Stored.distributionConfig[i].accountId =
                        sending.log[k].accountId
                  /\ Stored.distributionConfig[i].externalId =
                        sending.log[k].id
                  /\ sending.log[k].id # NoId
        /\ projects[Stored.projectId] =
              [videoCount |-> 1,
               stats |-> [ZeroStats EXCEPT !.total = 1,
                                           !.scheduledOrPublished = 1]]

C7_Witness ==
    /\ lastOp.op = "markVideoAsProcessing"
    /\ lastOp.date # NoDate
    /\ Len(sending.log) = 2
    /\ Len(Stored.distributionConfig) = 3

\* C8 as stated: a distribute writes only when the stored status is
\* approved at that time and the submitted list is not empty.
C8_OnlyWhenStoredApproved ==
    lastOp.op = "markVideoAsProcessing" =>
        /\ lastOp.persisted = "approved"
        /\ Len(lastOp.configs) > 0

\* C8, amended: a distribute writes only when the submitted list is not
\* empty and the status is approved in the snapshot the modal was opened
\* on; the stored status at that time can be any.
C8_OnlyWhenSnapshotApproved ==
    lastOp.op = "markVideoAsProcessing" =>
        /\ lastOp.snapshot = "approved"
        /\ Len(lastOp.configs) > 0

C8_Witness ==
    /\ lastOp.op = "markVideoAsProcessing"
    /\ lastOp.persisted = "dismissed"
    /\ Stored.status \in {"scheduled", "published"}

\* The positions of the entries the loop uploads, in list order.
RECURSIVE UploadOrder(_, _)
UploadOrder(active, from) ==
    LET i == NextCall(active, from)
    IN  IF i = 0 THEN <<>> ELSE <<i>> \o UploadOrder(active, i + 1)

NoExternalIds(configs) ==
    \A i \in 1..Len(configs) : configs[i].externalId = NoId

\* C10 as stated: a cancel writes only when the stored status is scheduled.
C10_OnlyWhenStoredScheduled ==
    lastOp.op = "cancelVideoScheduling" => lastOp.persisted = "scheduled"

\* C10, amended: the cancel confirmation is shown only on a snapshot whose
\* status is scheduled, and a cancel writes only from such a snapshot; what
\* it writes does not depend on the stored status: the status is approved,
\* there is no scheduledDate and no entry has an external id.
C10_OnlyWhenSnapshotScheduled ==
    /\ showCancelModal => previewVideo.status = "scheduled"
    /\ lastOp.op = "cancelVideoScheduling" =>
          /\ lastOp.snapshot = "scheduled"
          /\ Stored.status = "approved"
          /\ Stored.scheduledDate = NoDate
          /\ NoExternalIds(Stored.distributionConfig)

C10_Witness ==
    /\ lastOp.op = "cancelVideoScheduling"
    /\ lastOp.by = "calendar"
    /\ lastOp.persisted = "dismissed"
    /\ Stored.status = "approved"

\* ------------------------------------------------ claims: the remote delete
\* The remote deletes of the cancel that ended in the step just taken.
Attempted ==
    IF lastOp.op = "cancelAborted"
          \/ (lastOp.op = "cancelVideoScheduling" /\ lastOp.by = "calendar")
    THEN lastOp.attempted
    ELSE <<>>

AttemptedIds == { Attempted[k].id : k \in 1..Len(Attempted) }

\* The cancel of a scheduled asset whose remote delete was answered with
\* the given status has just ended.
DeleteAnswered(statuses) ==
    /\ Len(Attempted) = 1
    /\ Attempted[1].status \in statuses
    /\ lastOp.before.status = "scheduled"

\* C11: when the remote delete of the cancel of a scheduled asset is
\* answered 'not found', the cancel writes: the stored status is approved,
\* there is no scheduledDate, the stored list is the list before with the
\* external id removed from every entry and nothing else changed, and the
\* stats of the project count the video as approved.
C11_NotFoundStillCancels ==
    DeleteAnswered({"404"}) =>
        LET was == lastOp.before.distributionConfig
            now == Stored.distributionConfig
        IN  /\ lastOp.op = "cancelVideoScheduling"
            /\ Stored.status = "approved"
            /\ Stored.scheduledDate = NoDate
            /\ NoExternalIds(now)
            /\ Len(now) = Len(was)
            /\ \A i \in 1..Len(was) :
                  /\ now[i].platform = was[i].platform
                  /\ now[i].accountId = was[i].accountId
                  /\ now[i].postType = was[i].postType
                  /\ now[i].metadata = was[i].metadata
            /\ projects[Stored.projectId] =
                  [videoCount |-> 1,
                   stats |-> [ZeroStats EXCEPT !.total = 1, !.approved = 1]]

C11_Witness ==
    /\ DeleteAnswered({"404"})
    /\ lastOp.op = "cancelVideoScheduling"
    /\ Len(lastOp.before.distributionConfig) = 3
    /\ CarriedIds(lastOp.before.distributionConfig) # {}
    /\ Stored.status = "approved"

\* C12 as stated: a cancel that writes has attempted a remote delete for
\* every external id the entries of the asset carried.
C12_EveryIdDeleted ==
    (lastOp.op = "cancelVideoScheduling" /\ lastOp.by = "calendar") =>
        lastOp.carried \subseteq AttemptedIds

\* C13 as stated: when the remote delete of a cancel is answered with an
\* error other than 'not found', the asset still ends approved, with no
\* scheduledDate and no external id.
C13_ErrorStillCancels ==
    DeleteAnswered({"403", "500"}) =>
        /\ Stored.status = "approved"
        /\ Stored.scheduledDate = NoDate
        /\ NoExternalIds(Stored.distributionConfig)

\* C13, amended: when the remote delete of a cancel is answered with an
\* error other than 'not found', the cancel is abandoned: no document is
\* written, so the asset keeps its status scheduled, its scheduledDate and
\* its external ids, the confirmation is closed and the preview stays open
\* on the asset.
C13_ErrorAbortsCancel ==
    DeleteAnswered({"403", "500"}) =>
        /\ lastOp.op = "cancelAborted"
        /\ Stored = lastOp.before
        /\ Stored.status = "scheduled"
        /\ Stored.scheduledDate # NoDate
        /\ ~showCancelModal
        /\ deleting = NotDeleting
        /\ previewVideo # NoDoc

C13_Witness ==
    /\ DeleteAnswered({"403", "500"})
    /\ lastOp.op = "cancelAborted"
    /\ Stored.status = "scheduled"
    /\ CarriedIds(Stored.distributionConfig) # {}

\* ------------------------------------------ claims: the rules on the file
\* The <video> element has just delivered the file's metadata.
MetadataLoaded == videoDimensions = Undefined /\ videoDimensions' # Undefined

\* width / height of the file is at most num / den.
FileRatioLeq(file, num, den) ==
    file.videoHeight > 0 /\ file.videoWidth * den <= num * file.videoHeight

FileRatioGeq(file, num, den) ==
    file.videoHeight > 0 /\ file.videoWidth * den >= num * file.videoHeight

DerivedType(file) ==
    IF FileRatioLeq(file, 11, 10) /\ file.duration < 60
    THEN "shorts" ELSE "video"

Rewritten(configs, platform, type) ==
    [i \in 1..Len(configs) |->
        IF configs[i].platform = platform
        THEN [configs[i] EXCEPT !.postType = type]
        ELSE configs[i]]

AllOfType(configs, platform, type) ==
    \A i \in 1..Len(configs) :
        configs[i].platform = platform => configs[i].postType = type

\* C14: when the dimensions and the duration of the file become known (the
\* duration being a length other than 0), the YouTube type is derived as
\* shorts iff width / height <= 1.1 and duration < 60, else video; the
\* shared YouTube post type is the derived one afterwards, and if it was
\* another one before, whether set by the format or by the operator, every
\* YouTube entry of the list is rewritten with the derived type, the other
\* entries are kept, and the rewritten list is the one persisted.
C14_AutoSwitch ==
    [][(MetadataLoaded /\ media.duration # 0) =>
          LET derived == DerivedType(media)
          IN  /\ platformSettings'["youtube"] = derived
              /\ platformSettings["youtube"] # derived =>
                    /\ distributionConfigs' =
                          Rewritten(distributionConfigs, "youtube", derived)
                    /\ videos'[EditedId].distributionConfig =
                          distributionConfigs'
              /\ AllOfType(distributionConfigs', "youtube", derived)
              /\ AllOfType(videos'[EditedId].distributionConfig,
                           "youtube", derived)]_vars

\* Two YouTube accounts were selected on a vertical upload (shorts), then
\* the file turned out to last 60 seconds or more: both entries are video.
C14_Witness ==
    /\ edOpen /\ videoDimensions # Undefined
    /\ localVideo.format = "vertical"
    /\ media.duration >= 60
    /\ steps = 5 /\ lastToggle = NoToggle
    /\ Len(getPlatformConfigs("youtube")) = 2
    /\ AllOfType(distributionConfigs, "youtube", "video")
    /\ videos[EditedId].distributionConfig = distributionConfigs
    /\ platformSettings["youtube"] = "video"

\* The checks as the Instagram tab evaluates them.
RatioPasses == isInstagramRatioValid(videoDimensions)
DurationPasses == isInstagramDurationValid(videoDuration)
ShownWarnings == InstagramWarnings(videoDimensions, videoDuration)

\* C15: in the open editor, once the file is read, the Instagram ratio
\* check passes iff 0.50 <= width / height <= 0.85 and, for a duration other
\* than 0, the duration check passes iff 3 <= duration <= 3600; each check
\* has its own warning, shown iff that check fails, whatever the other
\* check says; before the file is read both checks pass.
C15_InstagramChecks ==
    edOpen =>
        IF videoDimensions = Undefined
        THEN /\ videoDuration = Undefined
             /\ RatioPasses /\ DurationPasses
             /\ ShownWarnings = {}
        ELSE /\ RatioPasses <=>
                   /\ FileRatioGeq(media, 50, 100)
                   /\ FileRatioLeq(media, 85, 100)
             /\ media.duration # 0 =>
                   (DurationPasses <=>
                       (media.duration >= 3 /\ media.duration <= 3600))
             /\ ("ratio" \in ShownWarnings) <=> ~RatioPasses
             /\ ("duration" \in ShownWarnings) <=> ~DurationPasses

\* A file at the lower limit of the ratio that is one second too long: the
\* ratio check passes and the duration warning alone is shown.
C15_Witness ==
    /\ edOpen /\ videoDimensions # Undefined
    /\ media.videoWidth = 50 /\ media.videoHeight = 100
    /\ media.duration = 3601
    /\ RatioPasses /\ ~DurationPasses
    /\ ShownWarnings = {"duration"}

\* instagram is toggled on for the edited video.
InstagramOn(platforms) == Includes(platforms, "instagram")

InstagramFails == ~isInstagramValid(videoDimensions, videoDuration)

\* C16: while the Instagram check fails for the file (ratio or duration
\* out of range), instagram is not among the platforms of the video,
\* neither in the editor nor in the store, whether the file was read before
\* or after the operator's toggles.
C16_NeverOnWhileFailing ==
    (edOpen /\ InstagramFails) =>
        /\ ~InstagramOn(selectedPlatforms)
        /\ ~InstagramOn(videos[EditedId].platforms)

\* ------------------------------------- claims: the shared post type
\* Every entry of the list carries the shared post type of its platform.
SharedPostType(configs) ==
    \A i \in 1..Len(configs) :
        configs[i].postType = platformSettings[configs[i].platform]

\* The operator clicks the card of type on the tab of platform.
ClicksTypeCard(platform, type) ==
    /\ Editing
    /\ Includes(selectedPlatforms, platform)
    /\ ~TypeCardDisabled(platform, type)
    /\ updatePostTypeForPlatform(platform, type)

\* C17: in the open editor every config entry, in memory and in the store,
\* carries the shared post type of its platform, so the entries of one
\* platform agree, whatever toggleAccountSelection, post-type and
\* auto-switch steps came before; and a click on a post-type card makes the
\* clicked type the shared one, rewrites the type of every entry of that
\* platform, keeps the other entries and persists the list.
C17_SharedPostType ==
    /\ [](edOpen =>
            /\ SharedPostType(distributionConfigs)
            /\ SharedPostType(videos[EditedId].distributionConfig))
    /\ [][\A platform \in Platforms :
            \A type \in PostTypesOf(platform) :
                ClicksTypeCard(platform, type) =>
                    /\ platformSettings'[platform] = type
                    /\ distributionConfigs' =
                          Rewritten(distributionConfigs, platform, type)
                    /\ videos'[EditedId].distributionConfig =
                          distributionConfigs']_vars

\* Two YouTube accounts selected on a vertical upload, then the operator
\* chose the long video before the file was read.
C17_Witness ==
    /\ edOpen /\ videoDimensions = Undefined
    /\ localVideo.format = "vertical"
    /\ platformSettings["youtube"] = "video"
    /\ Len(getPlatformConfigs("youtube")) = 2
    /\ AllOfType(distributionConfigs, "youtube", "video")
    /\ videos[EditedId].distributionConfig = distributionConfigs

\* ------------------------------------- claims: the shared metadata
SharedFields(platform) ==
    IF platform = "youtube" THEN {"title", "caption", "tags"}
    ELSE {"caption"}

\* The entries of one platform agree on the shared fields.
SameMeta(configs) ==
    \A i, j \in 1..Len(configs) :
        configs[i].platform = configs[j].platform =>
            \A f \in SharedFields(configs[i].platform) :
                configs[i].metadata[f] = configs[j].metadata[f]

\* Every entry carries the content of the fields of its platform, which
\* is what the approve guard reads.
CarriesShared(configs) ==
    \A i \in 1..Len(configs) :
        \A f \in SharedFields(configs[i].platform) :
            configs[i].metadata[f] = PlatformMeta(configs[i].platform)[f]

\* C18: in the open editor the config entries of one platform carry the
\* same title, caption/description and tags (YouTube) or caption (Instagram,
\* TikTok), and these equal the platform's current shared content, after any
\* sequence of edits, toggles, saves and closing and reopening the editor.
C18_SharedMetadata ==
    edOpen =>
        /\ SameMeta(distributionConfigs)
        /\ CarriesShared(distributionConfigs)

\* ------------------------------------- claims: approval and the store
\* C19: when confirmApprove has just made the stored status approved, the
\* stored distributionConfig is the in-memory list the editor held, with
\* the edits that syncMetadataToConfigs had only buffered; and when the
\* write of the config failed, nothing was written: the status is the one
\* stored before and the editor stays open.
C19_ConfigSavedBeforeApprove ==
    lastApprove.ran =>
        /\ (/\ videos[EditedId].status = "approved"
            /\ lastApprove.before.videos[EditedId].status # "approved")
              => videos[EditedId].distributionConfig = lastApprove.memory
        /\ lastApprove.failing = "updateConfig" =>
              /\ videos = lastApprove.before.videos
              /\ videos[EditedId].status
                    = lastApprove.before.videos[EditedId].status
              /\ edOpen

\* The title and the description were typed after the account was
\* selected, so the stored entry had neither; the approval stored them.
C19_Witness ==
    /\ lastApprove.ran /\ lastApprove.failing = NoFailure
    /\ lastApprove.stored # lastApprove.memory
    /\ Len(lastApprove.stored) = 1
    /\ lastApprove.stored[1].platform = "youtube"
    /\ lastApprove.stored[1].metadata.title = ""
    /\ videos[EditedId].status = "approved"
    /\ videos[EditedId].distributionConfig[1].metadata.title = "T"

\* The status a service writes.
WrittenStatus(op) ==
    IF op = "approveVideo" \/ op = "cancelVideoScheduling" THEN {"approved"}
    ELSE IF op = "dismissVideo" THEN {"dismissed"}
    ELSE IF op = "unapproveVideo" THEN {"pending"}
    ELSE IF op = "markVideoAsProcessing" THEN Distributed
    ELSE {UploadStatus}

\* The stored stats of the project are the counts of its videos by status.
StatsMatch(pid) ==
    /\ projects[pid].stats.total = Cardinality(VideosOf(pid))
    /\ projects[pid].videoCount = Cardinality(VideosOf(pid))
    /\ projects[pid].stats.discarded
          = Cardinality(VideosIn(pid, {"dismissed"}))
    /\ projects[pid].stats.scheduledOrPublished
          = Cardinality(VideosIn(pid, Distributed))
    /\ projects[pid].stats.approved
          = Cardinality(VideosIn(pid, {"approved"}))
    /\ projects[pid].stats.pendingReview
          = Cardinality(VideosIn(pid, Unreviewed))

\* C20: when the scan of the videos or the write of the project fails
\* inside the recomputation a status service triggers, the service still
\* resolves, the status it wrote stays in the store and the projects are
\* left as they were; and a service whose recomputation succeeds leaves
\* its project's stats equal to the counts of its videos by status, stale
\* or not before.
C20_StatsFailureTolerated ==
    lastOp.op \in {"saveVideoMetadata", "approveVideo", "dismissVideo",
                   "unapproveVideo", "markVideoAsProcessing",
                   "cancelVideoScheduling"} =>
        /\ ~lastOp.rejected
        /\ videos[lastOp.id].status \in WrittenStatus(lastOp.op)
        /\ IF lastOp.failing \in StatsCalls
           THEN projects = lastOp.before
           ELSE lastOp.project # NoProject => StatsMatch(lastOp.project)

\* The stats of the project were stale, a failed recomputation having left
\* them behind, and the dismissal just made has corrected them.
C20_Witness ==
    /\ lastOp.op = "dismissVideo"
    /\ lastOp.failing = NoFailure
    /\ lastOp.stale
    /\ ~StatsMatch(lastOp.project) \/ projects # lastOp.before
    /\ StatsMatch(lastOp.project)
    /\ ~StatsStale

PreApproval == {"pending", "ready"}

\* C22 as stated: the stored status becomes dismissed only in a step taken
\* from a stored status pending or ready.
C22_DismissedOnlyBeforeApproval ==
    [][(videos[EditedId].status # "dismissed"
           /\ videos'[EditedId].status = "dismissed")
          => videos[EditedId].status \in PreApproval]_vars

\* ------------------------------------- claims: platforms and entries
\* C23 as stated: the platform of every stored config entry of the asset
\* is one of the asset's stored platforms.
C23_ConfigPlatformsSubset ==
    \A i \in 1..Len(videos[EditedId].distributionConfig) :
        Includes(videos[EditedId].platforms,
                 videos[EditedId].distributionConfig[i].platform)

\* ------------------------------------- claims: deleteVideo
\* The videos of the project other than the deleted one, as they were.
RemainingStatuses(before, pid, id) ==
    StatusesFrom([before.videos EXCEPT ![id] = NoDoc], pid, 1)

\* C24: whatever the media store answers to the removal of the file, 'not
\* found' included, deleteVideo resolves and the record is gone unless its
\* own getDoc or deleteDoc failed; no other document changes; the stats of
\* the project the video had are then the counts of the remaining videos
\* (they stay as they were when the recomputation itself fails, and no
\* project is written for a video without one); when deleteDoc fails the
\* promise rejects and the record is still there.
C24_DeleteVideo ==
    lastOp.op = "deleteVideo" =>
        LET id == lastOp.id
            before == lastOp.before
        IN  /\ lastOp.rejected <=> lastOp.failing \in DeleteCalls
            /\ \A other \in VideoIds \ {id} :
                  videos[other] = before.videos[other]
            /\ IF lastOp.rejected
               THEN /\ videos[id] = before.videos[id]
                    /\ videos[id] # NoDoc
                    /\ projects = before.projects
               ELSE /\ videos[id] = NoDoc
                    /\ IF lastOp.project = NoProject
                          \/ lastOp.failing \in StatsCalls
                       THEN projects = before.projects
                       ELSE /\ projects[lastOp.project].stats =
                                  ProjectStatsOf(RemainingStatuses(
                                      before, lastOp.project, id))
                            /\ StatsMatch(lastOp.project)
                            /\ \A pid \in ProjectIds \ {lastOp.project} :
                                  projects[pid] = before.projects[pid]

\* The file was already gone; the record of one of two videos of the
\* project was removed and the stats count the one that is left.
C24_Witness ==
    /\ lastOp.op = "deleteVideo"
    /\ lastOp.storage = "storage/object-not-found"
    /\ lastOp.failing = NoFailure
    /\ ~lastOp.rejected
    /\ lastOp.project # NoProject
    /\ videos[lastOp.id] = NoDoc
    /\ lastOp.before.projects[lastOp.project].stats.total = 2
    /\ projects[lastOp.project].stats.total = 1

\* ------------------------------------- claims: concurrent sessions
\* No service call is under way.
AllSettled == \A session \in Sessions : inFlight[session].pc = "idle"

\* C25 as stated: once the service calls of both sessions have completed,
\* the stored stats of the project are the counts of its videos by their
\* current status.
C25_NoDriftAfterInterleaving ==
    AllSettled => StatsMatch(RaceProject)

\* A toggleAccountSelection of the second session, or of the first, is
\* the step taken.
PeerWrites == peer.open /\ peer'.open /\ peer'.toggled # peer.toggled

OwnWrites == edOpen /\ lastToggle'.count > 0 /\ lastToggle' # lastToggle

\* The lists differ in the entry of exactly one account.
OneAccountApart(before, after) ==
    Cardinality((Pairs(before) \ Pairs(after))
                   \cup (Pairs(after) \ Pairs(before))) = 1

\* C26: an account toggle of either session is written without regard to
\* the stored list: the list stored afterwards is the whole list of the
\* writing session, which is its own earlier list with the one account
\* toggled; so an entry another session had stored in between, which the
\* writer's list did not hold, is no longer stored.
C26_LastWriteWins ==
    [][LET stored == videos[EditedId].distributionConfig
           written == videos'[EditedId].distributionConfig
       IN  /\ PeerWrites =>
                /\ written = peer'.configs
                /\ OneAccountApart(peer.configs, peer'.configs)
                /\ \A pair \in Pairs(stored) \ Pairs(peer.configs) :
                      pair \in Pairs(written) =>
                          pair \notin Pairs(peer.configs)
                             /\ pair \in Pairs(peer'.configs)
                             /\ Pairs(peer'.configs) =
                                   Pairs(peer.configs) \cup {pair}
           /\ OwnWrites =>
                /\ written = distributionConfigs'
                /\ OneAccountApart(distributionConfigs, distributionConfigs')
      ]_vars

\* Both editors were opened on the empty list; the first session selected
\* y1, then the second selected y2: the stored list holds y2 alone while
\* the first editor still shows y1 as selected.
C26_Witness ==
    /\ edOpen /\ peer.open
    /\ lastToggle.count = 1 /\ ~lastToggle.wasSelected
    /\ lastToggle.stored = <<>>
    /\ peer.toggled = 1
    /\ Pairs(distributionConfigs) = { <<"youtube", "y1">> }
    /\ Pairs(peer.configs) = { <<"youtube", "y2">> }
    /\ videos[EditedId].distributionConfig = peer.configs
    /\ <<"youtube", "y1">> \notin Pairs(videos[EditedId].distributionConfig)

\* ------------------------------------ claims: skipped and repeated uploads
\* C27 as stated: in the state a distribute leaves when it writes, the asset
\* being scheduled or published, every stored YouTube entry carries an
\* external id.
C27_EveryYouTubeEntryPublished ==
    lastOp.op = "markVideoAsProcessing" =>
        \A i \in 1..Len(Stored.distributionConfig) :
            Stored.distributionConfig[i].platform = "youtube" =>
                Stored.distributionConfig[i].externalId # NoId

\* C28 as stated: the upload is never called for an entry that carries the
\* id an earlier call of the same modal returned for it.
C28_NoSecondUpload ==
    sending.state = "uploading" =>
        sending.active[sending.pos].externalId = NoId

\* ---------------------------------- claims: what a distribute submits
\* The (platform, account) pairs of the entries of a list.
PairsOf(configs) ==
    { <<configs[i].platform, configs[i].accountId>> :
         i \in 1..Len(configs) }

PlatformsOf(configs) == { configs[i].platform : i \in 1..Len(configs) }

SetOf(seq) == { seq[i] : i \in 1..Len(seq) }

\* C30: in the state a distribute leaves when it writes, the submitted list
\* has an entry for every entry that was stored before, those of a platform
\* that was switched off included, and no other; the stored platforms are
\* the platforms of the submitted entries, entry by entry; so the platform
\* of every stored entry is in platforms, and a platform that was on
\* without an entry is in platforms no more.
C30_DistributeRewritesPlatforms ==
    lastOp.op = "markVideoAsProcessing" =>
        /\ Len(lastOp.configs) = Len(lastOp.before.distributionConfig)
        /\ PairsOf(lastOp.configs) = PairsOf(lastOp.before.distributionConfig)
        /\ Stored.platforms = MapPlatforms(lastOp.configs)
        /\ \A i \in 1..Len(Stored.distributionConfig) :
              Includes(Stored.platforms, Stored.distributionConfig[i].platform)
        /\ \A p \in SetOf(lastOp.before.platforms) :
              p \notin PlatformsOf(lastOp.before.distributionConfig) =>
                  ~Includes(Stored.platforms, p)

\* A distribute of a video that had Instagram switched off with its entry
\* stored and TikTok switched on without an entry.
C30_Witness ==
    /\ lastOp.op = "markVideoAsProcessing"
    /\ lastOp.before.platforms = <<"youtube", "tiktok">>
    /\ "instagram" \in PlatformsOf(lastOp.before.distributionConfig)
    /\ Stored.platforms = <<"youtube", "instagram">>

\* ------------------------------- claims: the editor on an approved video
\* The texts an entry must carry for its platform.
EntryMetaFilled(entry) ==
    IF entry.platform = "youtube"
    THEN entry.metadata.title # "" /\ entry.metadata.caption # ""
    ELSE entry.metadata.caption # ""

\* C29 as stated: while the stored status is approved, at least one
\* platform is stored as switched on, and every such platform has a stored
\* config entry, each with its required texts.
C29_ApprovedKeepsGuards ==
    videos[EditedId].status = "approved" =>
        /\ videos[EditedId].platforms # <<>>
        /\ \A k \in 1..Len(videos[EditedId].platforms) :
              LET S == EntriesOf(videos[EditedId].distributionConfig,
                                 videos[EditedId].platforms[k])
              IN  /\ S # {}
                  /\ \A i \in S :
                        EntryMetaFilled(videos[EditedId].distributionConfig[i])
====
